---- MODULE Spec2Model ----
(***************************************************************************)
(* Model of the Dink Shuffle round-generation engine                       *)
(* (src/src/utils/shuffle.js).                                             *)
(*                                                                         *)
(* One call of shufflePlayers is followed from its validation to its       *)
(* return.  Each iteration of the loop of generateSinglesRounds,           *)
(* generateDoublesRandomRounds and generateMixedDoublesRounds is one       *)
(* action.  Math.random is the only source of nondeterminism: a            *)
(* Fisher-Yates shuffle yields any permutation, a sort whose comparator    *)
(* answers ties at random yields any cost-ascending order, and the coin    *)
(* flip of assignCourtNumbers keeps any cheapest permutation.              *)
(***************************************************************************)
EXTENDS Integers, Sequences, FiniteSets, TLC

\* ------------------------------------------------------------------ bounds
MaxMales == 3
MaxFemales == 2
MaxCourts == 2
MaxRounds == 4
\* Pools above SmallPool players branch widely at every sit-out draw; they
\* are followed for ShortRounds rounds only (mixed pools, whose draws are
\* per gender, are always followed for MaxRounds).
SmallPool == 4
ShortRounds == 2
RotationRounds == 4
MaxHalfDays == 5
MaxCodes == 2
WideCourts == 3
WideRounds == 3
LongRounds == 8
MaxEvents == 2

\* ------------------------------------------------------- program constants
MaxSweeps == 50
ExhaustiveCourts == 8
SinglesMin == 2
DoublesMin == 4
GenderMin == 2
null == "null"

\* --------------------------------------------------------------- utilities
Range(s) == {s[i] : i \in DOMAIN s}

Min2(a, b) == IF a =< b THEN a ELSE b

\* the same sequence, with every element computed once
Eager(s) == <<>> \o s

RECURSIVE SumSeq(_)
SumSeq(s) == IF s = <<>> THEN 0 ELSE Head(s) + SumSeq(Tail(s))

\* players.filter(keep), in list order
RECURSIVE Filter(_, _)
Filter(s, keep) ==
  IF s = <<>> THEN <<>>
  ELSE IF Head(s) \in keep THEN <<Head(s)>> \o Filter(Tail(s), keep)
       ELSE Filter(Tail(s), keep)

\* arr.map(p => p.id)
Ids(s) == {p.id : p \in Range(s)}

Player(i, g) == [id |-> i, gender |-> g]

\* m males with ids 1..m followed by f females with ids m+1..m+f
Pool(m, f) ==
  [i \in 1..(m + f) |-> Player(i, IF i =< m THEN "male" ELSE "female")]

\* every order a Fisher-Yates shuffle of arr can return
fisherYatesShuffle(arr) ==
  LET n == Len(arr)
  IN {[i \in 1..n |-> arr[f[i]]] :
        f \in {g \in [1..n -> 1..n] : \A i, j \in 1..n : i # j => g[i] # g[j]}}

createInitialScore ==
  [team1 |-> null, team2 |-> null, lastUpdatedBy |-> null, lastUpdatedAt |-> null]

\* ---------------------------------------------------------- fairness state
\* A Map is a function with a finite domain; a nested Map is a function of
\* functions.
EmptyMap == [x \in {} |-> 0]

createFairnessState(ps) ==
  [sitOutCounts   |-> [i \in Ids(ps) |-> 0],
   partnerCounts  |-> [i \in Ids(ps) |-> EmptyMap],
   opponentCounts |-> [i \in Ids(ps) |-> EmptyMap],
   courtCounts    |-> [i \in Ids(ps) |-> EmptyMap]]

\* map.get(k) || 0
GetOr0(map, k) == IF k \in DOMAIN map THEN map[k] ELSE 0

\* map.set(k, v)
MapSet(map, k, v) == [x \in DOMAIN map \cup {k} |-> IF x = k THEN v ELSE map[x]]

getCount(countMap, id1, id2) ==
  IF id1 \in DOMAIN countMap THEN GetOr0(countMap[id1], id2) ELSE 0

\* an increment that forgets the reverse direction
incrementCountOneWay(countMap, id1, id2) ==
  LET m0 == IF id1 \in DOMAIN countMap THEN countMap ELSE MapSet(countMap, id1, EmptyMap)
      m1 == IF id2 \in DOMAIN m0 THEN m0 ELSE MapSet(m0, id2, EmptyMap)
  IN MapSet(m1, id1, MapSet(m1[id1], id2, GetOr0(m1[id1], id2) + 1))

incrementCount(countMap, id1, id2) ==
  LET m0 == IF id1 \in DOMAIN countMap THEN countMap ELSE MapSet(countMap, id1, EmptyMap)
      m1 == IF id2 \in DOMAIN m0 THEN m0 ELSE MapSet(m0, id2, EmptyMap)
      m2 == MapSet(m1, id1, MapSet(m1[id1], id2, GetOr0(m1[id1], id2) + 1))
  IN MapSet(m2, id2, MapSet(m2[id2], id1, GetOr0(m2[id2], id1) + 1))

\* ------------------------------------------------------ sit-out selection
\* a sort of the counts in ascending order
RECURSIVE SortDescAscending(_)
SortDescAscending(S) ==
  IF S = {} THEN <<>>
  ELSE LET m == CHOOSE x \in S : \A y \in S : x =< y
       IN <<m>> \o SortDescAscending(S \ {m})

\* [...groups.keys()].sort((a, b) => b - a)
RECURSIVE SortDesc(_)
SortDesc(S) ==
  IF S = {} THEN <<>>
  ELSE LET m == CHOOSE x \in S : \A y \in S : y =< x
       IN <<m>> \o SortDesc(S \ {m})

\* the players of one sit-out count, in list order
GroupOf(ps, sitOutCounts, count) ==
  Filter(ps, {p \in Range(ps) : GetOr0(sitOutCounts, p.id) = count})

\* the groups of sortedCounts, each shuffled, one after the other
RECURSIVE ShuffledGroups(_, _, _)
ShuffledGroups(ps, sitOutCounts, sortedCounts) ==
  IF sortedCounts = <<>> THEN {<<>>}
  ELSE {g \o rest :
          g \in fisherYatesShuffle(GroupOf(ps, sitOutCounts, Head(sortedCounts))),
          rest \in ShuffledGroups(ps, sitOutCounts, Tail(sortedCounts))}

\* an update that sets the count of a sit-out to 1
BumpSitOutsSetOne(sitOutCounts, sitOuts) ==
  [i \in DOMAIN sitOutCounts \cup Ids(sitOuts) |->
     IF i \in Ids(sitOuts) THEN 1 ELSE sitOutCounts[i]]

\* for (const p of sitOuts) sitOutCounts.set(p.id, (sitOutCounts.get(p.id) || 0) + 1)
BumpSitOuts(sitOutCounts, sitOuts) ==
  [i \in DOMAIN sitOutCounts \cup Ids(sitOuts) |->
     IF i \in Ids(sitOuts) THEN GetOr0(sitOutCounts, i) + 1 ELSE sitOutCounts[i]]

\* a selector whose sit-out filter keeps the selected players
selectActivePlayersKeepSelected(ps, needed, sitOutCounts) ==
  IF Len(ps) =< needed
  THEN {[active |-> ps, sitOuts |-> <<>>, sitOutCounts |-> sitOutCounts]}
  ELSE LET sortedCounts == SortDesc({GetOr0(sitOutCounts, p.id) : p \in Range(ps)})
           actives == {SubSeq(c, 1, needed) :
                         c \in ShuffledGroups(ps, sitOutCounts, sortedCounts)}
       IN {LET sitOuts == Filter(ps, {p \in Range(ps) : p.id \in Ids(a)})
           IN [active |-> a, sitOuts |-> sitOuts,
               sitOutCounts |-> BumpSitOuts(sitOutCounts, sitOuts)] : a \in actives}

\* The results selectActivePlayers can return, each with the sit-out counts
\* it leaves behind.
selectActivePlayers(ps, needed, sitOutCounts) ==
  IF Len(ps) =< needed
  THEN {[active |-> ps, sitOuts |-> <<>>, sitOutCounts |-> sitOutCounts]}
  ELSE LET sortedCounts == SortDesc({GetOr0(sitOutCounts, p.id) : p \in Range(ps)})
           actives == {SubSeq(c, 1, needed) :
                         c \in ShuffledGroups(ps, sitOutCounts, sortedCounts)}
       IN {LET sitOuts == Filter(ps, {p \in Range(ps) : p.id \notin Ids(a)})
           IN [active |-> a, sitOuts |-> sitOuts,
               sitOutCounts |-> BumpSitOuts(sitOutCounts, sitOuts)] : a \in actives}

\* ------------------------------------------------------- greedy matching
\* Array.prototype.sort with a comparator that orders by cost and answers
\* ties at random leaves the candidates in some cost-ascending order.  The
\* scan that accepts every candidate whose members are all unused therefore
\* accepts, each time, any cheapest candidate among those still free.
MinCost(cands) == CHOOSE c \in {p.cost : p \in cands} : \A p \in cands : c =< p.cost

\* the candidates of the highest cost
Dearest(cands) == {p \in cands : \A q \in cands : q.cost =< p.cost}

Cheapest(cands) == {p \in cands : p.cost = MinCost(cands)}

\* allPairs of assignSinglesCourts / assignDoublesCourts: every pair i < j
AllPairs(active, countMap) ==
  {[players |-> <<active[i], active[j]>>,
    cost |-> getCount(countMap, active[i].id, active[j].id)] :
     <<i, j>> \in {ij \in (1..Len(active)) \X (1..Len(active)) : ij[1] < ij[2]}}

\* if (used.has(pair.players[0].id) || used.has(pair.players[1].id)) continue
PairFree(pair, used) ==
  pair.players[1].id \notin used /\ pair.players[2].id \notin used

\* the greedy scan over the sorted pairs, up to `quota` accepted pairs
RECURSIVE GreedyPairs(_, _, _, _)
GreedyPairs(allPairs, used, acc, quota) ==
  LET free == {p \in allPairs : PairFree(p, used)}
  IN IF Len(acc) >= quota \/ free = {} THEN {acc}
     ELSE UNION {GreedyPairs(allPairs,
                             used \cup {p.players[1].id, p.players[2].id},
                             Append(acc, p.players), quota) : p \in Cheapest(free)}

\* --------------------------------------------------------------- singles
\* every (i, j) with i < j =< n in the order of the two nested loops
CourtPairs(n) ==
  LET idx == {ij \in (1..n) \X (1..n) : ij[1] < ij[2]}
      Before(a, b) == a[1] < b[1] \/ (a[1] = b[1] /\ a[2] < b[2])
  IN Eager([k \in 1..Cardinality(idx) |->
              CHOOSE ij \in idx : Cardinality({x \in idx : Before(x, ij)}) = k - 1])

\* a step that also adopts a recombination of equal cost
SinglesSwapStepOnTies(st, i, j, opponentCounts) ==
  LET a == st.courts[i][1]
      b == st.courts[i][2]
      c == st.courts[j][1]
      d == st.courts[j][2]
      currentCost == getCount(opponentCounts, a.id, b.id) + getCount(opponentCounts, c.id, d.id)
      swap1Cost == getCount(opponentCounts, a.id, c.id) + getCount(opponentCounts, b.id, d.id)
      swap2Cost == getCount(opponentCounts, a.id, d.id) + getCount(opponentCounts, b.id, c.id)
  IN IF swap1Cost =< currentCost /\ swap1Cost =< swap2Cost
     THEN [courts |-> [st.courts EXCEPT ![i] = <<a, c>>, ![j] = <<b, d>>], improved |-> TRUE]
     ELSE IF swap2Cost =< currentCost
     THEN [courts |-> [st.courts EXCEPT ![i] = <<a, d>>, ![j] = <<b, c>>], improved |-> TRUE]
     ELSE st

\* the body of the inner loop of improveSinglesSwap for courts i and j
SinglesSwapStep(st, i, j, opponentCounts) ==
  LET a == st.courts[i][1]
      b == st.courts[i][2]
      c == st.courts[j][1]
      d == st.courts[j][2]
      currentCost == getCount(opponentCounts, a.id, b.id) + getCount(opponentCounts, c.id, d.id)
      swap1Cost == getCount(opponentCounts, a.id, c.id) + getCount(opponentCounts, b.id, d.id)
      swap2Cost == getCount(opponentCounts, a.id, d.id) + getCount(opponentCounts, b.id, c.id)
  IN IF swap1Cost < currentCost /\ swap1Cost =< swap2Cost
     THEN [courts |-> [st.courts EXCEPT ![i] = <<a, c>>, ![j] = <<b, d>>], improved |-> TRUE]
     ELSE IF swap2Cost < currentCost
     THEN [courts |-> [st.courts EXCEPT ![i] = <<a, d>>, ![j] = <<b, c>>], improved |-> TRUE]
     ELSE st

RECURSIVE SinglesSweep(_, _, _)
SinglesSweep(st, todo, opponentCounts) ==
  IF todo = <<>> THEN st
  ELSE SinglesSweep(SinglesSwapStep(st, Head(todo)[1], Head(todo)[2], opponentCounts),
                    Tail(todo), opponentCounts)

\* while (improved && iterations < 50) { improved = false; iterations++; sweep }
RECURSIVE SinglesSwapLoop(_, _, _, _)
SinglesSwapLoop(courts, improved, iterations, opponentCounts) ==
  IF improved /\ iterations < MaxSweeps
  THEN LET st == SinglesSweep([courts |-> courts, improved |-> FALSE],
                              CourtPairs(Len(courts)), opponentCounts)
       IN SinglesSwapLoop(st.courts, st.improved, iterations + 1, opponentCounts)
  ELSE [courts |-> courts, iterations |-> iterations]

improveSinglesSwap(courts, opponentCounts) ==
  SinglesSwapLoop(courts, TRUE, 0, opponentCounts).courts

\* The court pairs assignSinglesCourts can return, each with the greedy
\* pairing it was improved from.
assignSinglesCourts(activePlayers, numCourts, opponentCounts) ==
  LET actualCourts == Min2(numCourts, Len(activePlayers) \div 2)
  IN IF actualCourts = 0 THEN {[greedy |-> <<>>, courts |-> <<>>]}
     ELSE {[greedy |-> g, courts |-> improveSinglesSwap(g, opponentCounts)] :
             g \in GreedyPairs(AllPairs(activePlayers, opponentCounts), {}, <<>>, actualCourts)}

\* --------------------------------------------------------------- doubles
courtOpponentCost(team1, team2, opponentCounts) ==
  SumSeq([k \in 1..(Len(team1) * Len(team2)) |->
            getCount(opponentCounts,
                     team1[((k - 1) \div Len(team2)) + 1].id,
                     team2[((k - 1) % Len(team2)) + 1].id)])

fullCourtCost(team1, team2, partnerCounts, opponentCounts) ==
  getCount(partnerCounts, team1[1].id, team1[2].id)
  + getCount(partnerCounts, team2[1].id, team2[2].id)
  + courtOpponentCost(team1, team2, opponentCounts)

\* the first index of a sequence of costs that holds its least value: what
\* a scan keeps that replaces its best only on a strictly lower cost
FirstMin(costs) ==
  CHOOSE k \in DOMAIN costs :
    /\ \A q \in DOMAIN costs : costs[k] =< costs[q]
    /\ \A q \in DOMAIN costs : costs[q] = costs[k] => k =< q

\* a split that takes the first of the three ways whatever it costs
bestTeamSplitFirstWay(fourPlayers, partnerCounts) ==
  [team1 |-> <<fourPlayers[1], fourPlayers[2]>>, team2 |-> <<fourPlayers[3], fourPlayers[4]>>]

bestTeamSplit(fourPlayers, partnerCounts) ==
  LET a == fourPlayers[1]
      b == fourPlayers[2]
      c == fourPlayers[3]
      d == fourPlayers[4]
      splits == <<[team1 |-> <<a, b>>, team2 |-> <<c, d>>],
                  [team1 |-> <<a, c>>, team2 |-> <<b, d>>],
                  [team1 |-> <<a, d>>, team2 |-> <<b, c>>]>>
      costs == Eager([k \in 1..3 |->
                  getCount(partnerCounts, splits[k].team1[1].id, splits[k].team1[2].id)
                  + getCount(partnerCounts, splits[k].team2[1].id, splits[k].team2[2].id)])
  IN splits[FirstMin(costs)]

Bit(mask, bit) == (mask \div (2 ^ bit)) % 2

popcount(n) == SumSeq([b \in 1..8 |-> Bit(n, b - 1)])

RECURSIVE SortAsc(_)
SortAsc(S) ==
  IF S = {} THEN <<>>
  ELSE LET m == CHOOSE x \in S : \A y \in S : x =< y
       IN <<m>> \o SortAsc(S \ {m})

\* the masks allSplitsOf8Into4And4 keeps, in the order of its loop
SplitMasks == SortAsc({mask \in 0..255 : popcount(mask) = 4 /\ Bit(mask, 0) = 1})

\* for each mask, the bit positions that are set and those that are not
MaskBits ==
  Eager([k \in 1..Len(SplitMasks) |->
           <<SortAsc({b \in 0..7 : Bit(SplitMasks[k], b) = 1}),
             SortAsc({b \in 0..7 : Bit(SplitMasks[k], b) = 0})>>])

\* items[bit] for the bits of one group, in bit order
MaskGroup(items, bits) == Eager([q \in 1..Len(bits) |-> items[bits[q] + 1]])

allSplitsOf8Into4And4(items) ==
  IF Len(items) # 8 THEN <<>>
  ELSE Eager([k \in 1..Len(MaskBits) |->
                <<MaskGroup(items, MaskBits[k][1]), MaskGroup(items, MaskBits[k][2])>>])

\* the body of the inner loop of improveDoublesSwap for courts i and j
DoublesSwapStep(st, i, j, partnerCounts, opponentCounts) ==
  LET ci == st.courts[i]
      cj == st.courts[j]
      allEight == ci.team1 \o ci.team2 \o cj.team1 \o cj.team2
      currentCost == fullCourtCost(ci.team1, ci.team2, partnerCounts, opponentCounts)
                     + fullCourtCost(cj.team1, cj.team2, partnerCounts, opponentCounts)
      splits == allSplitsOf8Into4And4(allEight)
      configs == Eager([k \in DOMAIN splits |->
                    <<bestTeamSplit(splits[k][1], partnerCounts),
                      bestTeamSplit(splits[k][2], partnerCounts)>>])
      costs == Eager([k \in DOMAIN splits |->
                  fullCourtCost(configs[k][1].team1, configs[k][1].team2, partnerCounts, opponentCounts)
                  + fullCourtCost(configs[k][2].team1, configs[k][2].team2, partnerCounts, opponentCounts)])
      best == FirstMin(costs)
  IN IF splits # <<>> /\ costs[best] < currentCost
     THEN [courts |-> [st.courts EXCEPT ![i] = configs[best][1], ![j] = configs[best][2]],
           improved |-> TRUE]
     ELSE st

RECURSIVE DoublesSweep(_, _, _, _)
DoublesSweep(st, todo, partnerCounts, opponentCounts) ==
  IF todo = <<>> THEN st
  ELSE DoublesSweep(DoublesSwapStep(st, Head(todo)[1], Head(todo)[2], partnerCounts, opponentCounts),
                    Tail(todo), partnerCounts, opponentCounts)

RECURSIVE DoublesSwapLoop(_, _, _, _, _)
DoublesSwapLoop(courts, improved, iterations, partnerCounts, opponentCounts) ==
  IF improved /\ iterations < MaxSweeps
  THEN LET st == DoublesSweep([courts |-> courts, improved |-> FALSE],
                              CourtPairs(Len(courts)), partnerCounts, opponentCounts)
       IN DoublesSwapLoop(st.courts, st.improved, iterations + 1, partnerCounts, opponentCounts)
  ELSE [courts |-> courts, iterations |-> iterations]

improveDoublesSwap(courts, partnerCounts, opponentCounts) ==
  DoublesSwapLoop(courts, TRUE, 0, partnerCounts, opponentCounts).courts

\* teamPairs of stage B: every pair of team indices idx1 < idx2
TeamPairs(teams, opponentCounts) ==
  {[idx1 |-> ij[1], idx2 |-> ij[2],
    cost |-> courtOpponentCost(teams[ij[1]], teams[ij[2]], opponentCounts)] :
     ij \in {x \in (1..Len(teams)) \X (1..Len(teams)) : x[1] < x[2]}}

\* if (usedTeams.has(tp.idx1) || usedTeams.has(tp.idx2)) continue
TeamPairFree(tp, usedTeams) == tp.idx1 \notin usedTeams /\ tp.idx2 \notin usedTeams

\* the greedy scan of stage B, up to `quota` courts
RECURSIVE GreedyTeamPairs(_, _, _, _, _)
GreedyTeamPairs(teamPairs, usedTeams, acc, quota, teams) ==
  LET free == {tp \in teamPairs : TeamPairFree(tp, usedTeams)}
  IN IF Len(acc) >= quota \/ free = {} THEN {acc}
     ELSE UNION {GreedyTeamPairs(teamPairs, usedTeams \cup {tp.idx1, tp.idx2},
                                 Append(acc, [team1 |-> teams[tp.idx1], team2 |-> teams[tp.idx2]]),
                                 quota, teams) : tp \in Cheapest(free)}

\* The courts assignDoublesCourts can return, each with the teams of stage A
\* and the courts of stage B it was improved from.
assignDoublesCourts(activePlayers, numCourts, partnerCounts, opponentCounts) ==
  LET actualCourts == Min2(numCourts, Len(activePlayers) \div 4)
  IN IF actualCourts = 0 THEN {[teams |-> <<>>, greedy |-> <<>>, courts |-> <<>>]}
     ELSE UNION {
            {[teams |-> teams, greedy |-> g,
              courts |-> improveDoublesSwap(g, partnerCounts, opponentCounts)] :
               g \in GreedyTeamPairs(TeamPairs(teams, opponentCounts), {}, <<>>, actualCourts, teams)} :
            teams \in GreedyPairs(AllPairs(activePlayers, partnerCounts), {}, <<>>, actualCourts * 2)}

\* --------------------------------------------------------- mixed doubles
\* allPairs of assignMixedDoublesCourts: every male with every female
AllMixedPairs(activeMales, activeFemales, partnerCounts) ==
  {[players |-> <<activeMales[i], activeFemales[j]>>,
    cost |-> getCount(partnerCounts, activeMales[i].id, activeFemales[j].id)] :
     <<i, j>> \in (1..Len(activeMales)) \X (1..Len(activeFemales))}

\* if (usedMales.has(pair.players[0].id) || usedFemales.has(pair.players[1].id)) continue
MixedPairFree(pair, usedMales, usedFemales) ==
  pair.players[1].id \notin usedMales /\ pair.players[2].id \notin usedFemales

RECURSIVE GreedyMixedPairs(_, _, _, _, _)
GreedyMixedPairs(allPairs, usedMales, usedFemales, acc, quota) ==
  LET free == {p \in allPairs : MixedPairFree(p, usedMales, usedFemales)}
  IN IF Len(acc) >= quota \/ free = {} THEN {acc}
     ELSE UNION {GreedyMixedPairs(allPairs, usedMales \cup {p.players[1].id},
                                  usedFemales \cup {p.players[2].id},
                                  Append(acc, p.players), quota) : p \in Cheapest(free)}

\* arr without its i-th element
Without(arr, i) == SubSeq(arr, 1, i - 1) \o SubSeq(arr, i + 1, Len(arr))

RECURSIVE permutations(_)
RECURSIVE PermutationsFrom(_, _)
\* the permutations that start with arr[i], arr[i+1], ..., in that order
PermutationsFrom(arr, i) ==
  IF i > Len(arr) THEN <<>>
  ELSE LET sub == permutations(Without(arr, i))
       IN [k \in 1..Len(sub) |-> <<arr[i]>> \o sub[k]] \o PermutationsFrom(arr, i + 1)

permutations(arr) == IF Len(arr) =< 1 THEN <<arr>> ELSE PermutationsFrom(arr, 1)

courtPairings == <<<<1, 2, 3, 4>>, <<1, 3, 2, 4>>, <<1, 4, 2, 3>>>>

\* players.filter(p => p.gender === g)
ByGender(ps, g) == Filter(ps, {p \in Range(ps) : p.gender = g})

\* a swap step that searches the 4+4 splits of random doubles
MixedSwapStepAnySplit(st, i, j, partnerCounts, opponentCounts) ==
  DoublesSwapStep(st, i, j, partnerCounts, opponentCounts)

\* the body of the inner loop of improveMixedDoublesSwap for courts i and j
MixedSwapStep(st, i, j, partnerCounts, opponentCounts) ==
  LET ci == st.courts[i]
      cj == st.courts[j]
      currentCost == fullCourtCost(ci.team1, ci.team2, partnerCounts, opponentCounts)
                     + fullCourtCost(cj.team1, cj.team2, partnerCounts, opponentCounts)
      allPlayers == ci.team1 \o ci.team2 \o cj.team1 \o cj.team2
      ms == ByGender(allPlayers, "male")
      fs == ByGender(allPlayers, "female")
      femalePerms == permutations(fs)
      np == Len(courtPairings)
      \* newTeams for each permutation, in the order of the outer loop
      newTeams == Eager([m \in 1..Len(femalePerms) |->
                    Eager([idx \in 1..Len(ms) |-> <<ms[idx], femalePerms[m][idx]>>])])
      \* candidate k: permutation (k-1) div 3, court pairing (k-1) mod 3
      teamsOf(k) == newTeams[((k - 1) \div np) + 1]
      pairing(k) == courtPairings[((k - 1) % np) + 1]
      configs == Eager([k \in 1..(Len(femalePerms) * np) |->
                    <<[team1 |-> teamsOf(k)[pairing(k)[1]], team2 |-> teamsOf(k)[pairing(k)[2]]],
                      [team1 |-> teamsOf(k)[pairing(k)[3]], team2 |-> teamsOf(k)[pairing(k)[4]]]>>])
      costs == Eager([k \in DOMAIN configs |->
                  fullCourtCost(configs[k][1].team1, configs[k][1].team2, partnerCounts, opponentCounts)
                  + fullCourtCost(configs[k][2].team1, configs[k][2].team2, partnerCounts, opponentCounts)])
      best == FirstMin(costs)
  IN IF costs[best] < currentCost
     THEN [courts |-> [st.courts EXCEPT ![i] = configs[best][1], ![j] = configs[best][2]],
           improved |-> TRUE]
     ELSE st

RECURSIVE MixedSweep(_, _, _, _)
MixedSweep(st, todo, partnerCounts, opponentCounts) ==
  IF todo = <<>> THEN st
  ELSE MixedSweep(MixedSwapStep(st, Head(todo)[1], Head(todo)[2], partnerCounts, opponentCounts),
                  Tail(todo), partnerCounts, opponentCounts)

RECURSIVE MixedSwapLoop(_, _, _, _, _)
MixedSwapLoop(courts, improved, iterations, partnerCounts, opponentCounts) ==
  IF improved /\ iterations < MaxSweeps
  THEN LET st == MixedSweep([courts |-> courts, improved |-> FALSE],
                            CourtPairs(Len(courts)), partnerCounts, opponentCounts)
       IN MixedSwapLoop(st.courts, st.improved, iterations + 1, partnerCounts, opponentCounts)
  ELSE [courts |-> courts, iterations |-> iterations]

improveMixedDoublesSwap(courts, partnerCounts, opponentCounts) ==
  MixedSwapLoop(courts, TRUE, 0, partnerCounts, opponentCounts).courts

\* a stage A that stops at one team per court
assignMixedDoublesCourtsOneTeamPerCourt(activeMales, activeFemales, numCourts, partnerCounts, opponentCounts) ==
  LET actualCourts == Min2(numCourts, Min2(Len(activeMales) \div 2, Len(activeFemales) \div 2))
  IN IF actualCourts = 0 THEN {[teams |-> <<>>, greedy |-> <<>>, courts |-> <<>>]}
     ELSE UNION {
            {[teams |-> teams, greedy |-> g,
              courts |-> improveMixedDoublesSwap(g, partnerCounts, opponentCounts)] :
               g \in GreedyTeamPairs(TeamPairs(teams, opponentCounts), {}, <<>>, actualCourts, teams)} :
            teams \in GreedyMixedPairs(AllMixedPairs(activeMales, activeFemales, partnerCounts),
                                       {}, {}, <<>>, actualCourts)}

\* The courts assignMixedDoublesCourts can return, each with the teams of
\* stage A and the courts of stage B it was improved from.
assignMixedDoublesCourts(activeMales, activeFemales, numCourts, partnerCounts, opponentCounts) ==
  LET actualCourts == Min2(numCourts, Min2(Len(activeMales) \div 2, Len(activeFemales) \div 2))
  IN IF actualCourts = 0 THEN {[teams |-> <<>>, greedy |-> <<>>, courts |-> <<>>]}
     ELSE UNION {
            {[teams |-> teams, greedy |-> g,
              courts |-> improveMixedDoublesSwap(g, partnerCounts, opponentCounts)] :
               g \in GreedyTeamPairs(TeamPairs(teams, opponentCounts), {}, <<>>, actualCourts, teams)} :
            teams \in GreedyMixedPairs(AllMixedPairs(activeMales, activeFemales, partnerCounts),
                                       {}, {}, <<>>, actualCourts * 2)}

\* -------------------------------------------------------- court rotation
\* costForCourt of assignCourtNumbers; the callback getPlayers is the
\* function from each court group to its players
costForCourt(group, courtNumber, courtCounts, getPlayers) ==
  LET ps == getPlayers[group]
  IN SumSeq([k \in 1..Len(ps) |-> getCount(courtCounts, ps[k].id, courtNumber)])

\* the greedy fallback: for each court number in turn, any cheapest group left
RECURSIVE GreedyCourtNumbers(_, _, _, _, _, _)
GreedyCourtNumbers(courtGroups, courtCounts, getPlayers, courtNum, available, result) ==
  IF courtNum > Len(courtGroups) THEN {result}
  ELSE LET cost(idx) == costForCourt(courtGroups[idx], courtNum, courtCounts, getPlayers)
           best == {idx \in available : \A other \in available : cost(idx) =< cost(other)}
       IN UNION {GreedyCourtNumbers(courtGroups, courtCounts, getPlayers, courtNum + 1,
                                    available \ {idx}, Append(result, courtGroups[idx])) :
                   idx \in best}

\* let bestCost = Infinity: no order has been kept yet
Infinity == -1

\* the orders of 0..n-1 in the order enumerate visits them (1-based here)
EnumerationOrder(n) == Eager(permutations([i \in 1..n |-> i]))

\* a scan that keeps an order when it is dearer than the best so far
RECURSIVE EnumerateScanDearest(_, _, _, _, _)
EnumerateScanDearest(orders, costs, k, bestOrder, bestCost) ==
  IF k > Len(orders) THEN {bestOrder}
  ELSE IF bestCost = Infinity \/ costs[k] > bestCost
       THEN EnumerateScanDearest(orders, costs, k + 1, orders[k], costs[k])
       ELSE IF costs[k] = bestCost
            THEN EnumerateScanDearest(orders, costs, k + 1, orders[k], costs[k])
                   \cup EnumerateScanDearest(orders, costs, k + 1, bestOrder, bestCost)
            ELSE EnumerateScanDearest(orders, costs, k + 1, bestOrder, bestCost)

\* The orders the scan of enumerate can end with, from the k-th order on:
\* an order is kept when it is strictly cheaper than the best so far, and
\* on equal cost when Math.random() < 0.5.
RECURSIVE EnumerateScan(_, _, _, _, _)
EnumerateScan(orders, costs, k, bestOrder, bestCost) ==
  IF k > Len(orders) THEN {bestOrder}
  ELSE IF bestCost = Infinity \/ costs[k] < bestCost
       THEN EnumerateScan(orders, costs, k + 1, orders[k], costs[k])
       ELSE IF costs[k] = bestCost
            THEN EnumerateScan(orders, costs, k + 1, orders[k], costs[k])
                   \cup EnumerateScan(orders, costs, k + 1, bestOrder, bestCost)
            ELSE EnumerateScan(orders, costs, k + 1, bestOrder, bestCost)

\* a rotation that returns the groups in the order it was given them
assignCourtNumbersAsGiven(courtGroups, courtCounts, getPlayers) == {courtGroups}

\* The orders assignCourtNumbers can return.
assignCourtNumbers(courtGroups, courtCounts, getPlayers) ==
  LET n == Len(courtGroups)
      orders == EnumerationOrder(n)
      costs == Eager([k \in 1..Len(orders) |->
                 SumSeq([i \in 1..n |->
                   costForCourt(courtGroups[orders[k][i]], i, courtCounts, getPlayers)])])
  IN IF n =< 1 THEN {courtGroups}
     ELSE IF n =< ExhaustiveCourts
     THEN {[i \in 1..n |-> courtGroups[order[i]]] :
             order \in EnumerateScan(orders, costs, 1, <<>>, Infinity)}
     ELSE GreedyCourtNumbers(courtGroups, courtCounts, getPlayers, 1, 1..n, <<>>)

\* an update that counts the first player of the court only
RECURSIVE updateCourtCountsFirstPlayer(_, _, _)
updateCourtCountsFirstPlayer(ps, courtNumber, courtCounts) ==
  IF ps = <<>> THEN courtCounts
  ELSE LET p == Head(ps)
       IN IF p.id \in DOMAIN courtCounts
          THEN MapSet(courtCounts, p.id,
                      MapSet(courtCounts[p.id], courtNumber,
                             GetOr0(courtCounts[p.id], courtNumber) + 1))
          ELSE courtCounts

RECURSIVE updateCourtCounts(_, _, _)
updateCourtCounts(ps, courtNumber, courtCounts) ==
  IF ps = <<>> THEN courtCounts
  ELSE LET p == Head(ps)
           next == IF p.id \in DOMAIN courtCounts
                   THEN MapSet(courtCounts, p.id,
                               MapSet(courtCounts[p.id], courtNumber,
                                      GetOr0(courtCounts[p.id], courtNumber) + 1))
                   ELSE courtCounts
       IN updateCourtCounts(Tail(ps), courtNumber, next)

\* A team that is null is written NoTeam; the court then has no team fields.
NoTeam == <<>>

\* a court numbered by its index in the list
buildCourtObjectZeroBased(roundIdx, courtIdx, ps, team1, team2) ==
  LET court == [id |-> <<"r", roundIdx, "c", courtIdx>>,
                courtNumber |-> courtIdx,
                players |-> ps,
                status |-> "pending",
                score |-> createInitialScore]
  IN IF team1 = NoTeam THEN court
     ELSE [id |-> court.id, courtNumber |-> court.courtNumber, players |-> ps,
           status |-> court.status, score |-> court.score,
           team1 |-> team1, team2 |-> team2]

buildCourtObject(roundIdx, courtIdx, ps, team1, team2) ==
  LET court == [id |-> <<"r", roundIdx, "c", courtIdx>>,
                courtNumber |-> courtIdx + 1,
                players |-> ps,
                status |-> "pending",
                score |-> createInitialScore]
  IN IF team1 = NoTeam THEN court
     ELSE [id |-> court.id, courtNumber |-> court.courtNumber, players |-> ps,
           status |-> court.status, score |-> court.score,
           team1 |-> team1, team2 |-> team2]

SinglesPlayers(pair) == pair

\* orderedPairs.map(...) of generateSinglesRounds: counters after the courts
\* idx..Len(orderedPairs) (1-based) have been written
RECURSIVE SinglesCounts(_, _, _)
SinglesCounts(orderedPairs, idx, fs) ==
  IF idx > Len(orderedPairs) THEN fs
  ELSE LET pair == orderedPairs[idx]
       IN SinglesCounts(orderedPairs, idx + 1,
            [fs EXCEPT !.opponentCounts = incrementCount(@, pair[1].id, pair[2].id),
                       !.courtCounts = updateCourtCounts(pair, idx, @)])

SinglesCourts(rIdx, orderedPairs) ==
  [idx \in 1..Len(orderedPairs) |->
     buildCourtObject(rIdx, idx - 1, orderedPairs[idx], NoTeam, NoTeam)]

DoublesPlayers(a) == a.team1 \o a.team2

\* ordered.map(...) of generateDoublesRandomRounds and generateMixedDoublesRounds:
\* counters after the courts idx..Len(ordered) (1-based) have been written
RECURSIVE DoublesCounts(_, _, _)
DoublesCounts(ordered, idx, fs) ==
  IF idx > Len(ordered) THEN fs
  ELSE LET t1 == ordered[idx].team1
           t2 == ordered[idx].team2
           partners == incrementCount(incrementCount(fs.partnerCounts, t1[1].id, t1[2].id),
                                      t2[1].id, t2[2].id)
           opponents ==
             incrementCount(incrementCount(incrementCount(incrementCount(fs.opponentCounts,
               t1[1].id, t2[1].id), t1[1].id, t2[2].id), t1[2].id, t2[1].id), t1[2].id, t2[2].id)
       IN DoublesCounts(ordered, idx + 1,
            [fs EXCEPT !.partnerCounts = partners,
                       !.opponentCounts = opponents,
                       !.courtCounts = updateCourtCounts(t1 \o t2, idx, @)])

\* courts whose player list spreads team1 twice
DoublesCourtsTeam1Twice(rIdx, ordered) ==
  [idx \in 1..Len(ordered) |->
     buildCourtObject(rIdx, idx - 1, ordered[idx].team1 \o ordered[idx].team1,
                      ordered[idx].team1, ordered[idx].team2)]

DoublesCourts(rIdx, ordered) ==
  [idx \in 1..Len(ordered) |->
     buildCourtObject(rIdx, idx - 1, ordered[idx].team1 \o ordered[idx].team2,
                      ordered[idx].team1, ordered[idx].team2)]

\* a round numbered by the loop index itself
RoundZeroBased(rIdx, courts, sitOuts) ==
  [id |-> <<"round", rIdx>>, roundNumber |-> rIdx, courts |-> courts, sitOuts |-> sitOuts]

Round(rIdx, courts, sitOuts) ==
  [id |-> <<"round", rIdx>>, roundNumber |-> rIdx + 1, courts |-> courts, sitOuts |-> sitOuts]

\* ------------------------------------------------------------------ state
VARIABLES
  players, gameType, pairingMode, numRounds, numCourts,  \* the arguments
  pc,              \* "call", "loop" (inside a generate...Rounds loop), "returned"
  r,               \* the loop index of generate...Rounds
  fairness,        \* the record createFairnessState returned, as mutated since
  rounds,          \* the rounds pushed so far
  iter,            \* the locals of the last loop iteration
  result,          \* what shufflePlayers returned
  swap,            \* improved and iterations of a swap-improvement loop
  now,             \* Date.now()
  stored,          \* the item of localStorage under STORAGE_KEY
  reply,           \* what the last storage function returned, and its last log line
  upd,             \* updateSession between its await and its write
  channel          \* the courts realtime channel: events received, and the last one

args == <<players, gameType, pairingMode, numRounds, numCourts>>
shuffleVars == <<players, gameType, pairingMode, numRounds, numCourts, pc, r, fairness, rounds, iter, result>>
storageVars == <<now, stored, reply, upd>>
vars == <<shuffleVars, swap, storageVars, channel>>

\* no swap-improvement loop is running
NoSwap == [loop |-> null, improved |-> FALSE, iterations |-> 0, running |-> FALSE]

\* localStorage.getItem(STORAGE_KEY) === null
NoItem == [present |-> FALSE, sessionCode |-> 0, isShuffled |-> FALSE, savedAt |-> 0, expiresAt |-> 0]

NoReply == [op |-> null, ok |-> FALSE, session |-> NoItem, log |-> null]

NoUpdate == [awaiting |-> FALSE, current |-> NoItem, isShuffled |-> FALSE]

\* payload.new of no event
NoPayload ==
  [round_number |-> 0, court_number |-> 0, status |-> null, score_team1 |-> null,
   score_team2 |-> null, score_updated_by |-> null, score_updated_at |-> null]

\* no event has come in on the courts channel
NoChannel == [received |-> 0, last |-> NoPayload]

\* the storage functions have not been called, no swap loop is running, no
\* realtime event has come in
ShuffleOnly ==
  /\ channel = NoChannel
  /\ swap = NoSwap
  /\ now = 0
  /\ stored = NoItem
  /\ reply = NoReply
  /\ upd = NoUpdate

NoFairness ==
  [sitOutCounts |-> EmptyMap, partnerCounts |-> EmptyMap,
   opponentCounts |-> EmptyMap, courtCounts |-> EmptyMap]

NoIter == [active |-> <<>>, sitOuts |-> <<>>, teams |-> <<>>, greedy |-> <<>>,
           assigned |-> <<>>, ordered |-> <<>>]

RoundsFor(ps, mode) ==
  IF mode = "mixed" \/ Len(ps) =< SmallPool THEN MaxRounds ELSE ShortRounds

Init ==
  /\ \E m \in 0..MaxMales, f \in 0..MaxFemales : players = Pool(m, f)
  /\ \E gp \in {<<"singles", null>>, <<"doubles", "random">>, <<"doubles", "mixed">>} :
        /\ gameType = gp[1]
        /\ pairingMode = gp[2]
  /\ numCourts \in 0..MaxCourts
  /\ numRounds \in 0..RoundsFor(players, pairingMode)
  /\ pc = "call"
  /\ r = 0
  /\ fairness = NoFairness
  /\ rounds = <<>>
  /\ iter = NoIter
  /\ result = null
  /\ ShuffleOnly

\* ------------------------------------------------------------- validation
males(ps) == Filter(ps, {p \in Range(ps) : p.gender = "male"})
females(ps) == Filter(ps, {p \in Range(ps) : p.gender = "female"})

\* the singles minimum for every game type
minPlayersSingles(gt) == SinglesMin

minPlayers(gt) == IF gt = "singles" THEN SinglesMin ELSE DoublesMin

NoPlayersError == "No players in session"
\* `Need at least ${minPlayers} players for ${gameType}`
TooFewError(gt) ==
  IF gt = "singles" THEN "Need at least 2 players for singles"
  ELSE "Need at least 4 players for doubles"
GenderError == "Mixed doubles requires at least 2 males and 2 females"

\* a validation that counts the players before it looks for an empty list
validationErrorCountFirst(ps, gt, pm) ==
  IF Len(ps) < minPlayers(gt) THEN TooFewError(gt)
  ELSE IF Len(ps) = 0 THEN NoPlayersError
  ELSE IF /\ gt = "doubles" /\ pm = "mixed"
          /\ (Len(males(ps)) < GenderMin \/ Len(females(ps)) < GenderMin)
       THEN GenderError
  ELSE null

\* a validation that rejects only when both genders are short
validationErrorBothShort(ps, gt, pm) ==
  IF Len(ps) = 0 THEN NoPlayersError
  ELSE IF Len(ps) < minPlayers(gt) THEN TooFewError(gt)
  ELSE IF /\ gt = "doubles" /\ pm = "mixed"
          /\ (Len(males(ps)) < GenderMin /\ Len(females(ps)) < GenderMin)
       THEN GenderError
  ELSE null

\* the validation of shufflePlayers: the error it returns, or null
validationError(ps, gt, pm) ==
  IF Len(ps) = 0 THEN NoPlayersError
  ELSE IF Len(ps) < minPlayers(gt) THEN TooFewError(gt)
  ELSE IF /\ gt = "doubles" /\ pm = "mixed"
          /\ (Len(males(ps)) < GenderMin \/ Len(females(ps)) < GenderMin)
       THEN GenderError
  ELSE null

Return(rs, err) ==
  /\ result' = [rounds |-> rs, error |-> err]
  /\ pc' = "returned"

\* a validation failed: shufflePlayers returns the error and no round
Reject ==
  /\ pc = "call"
  /\ validationError(players, gameType, pairingMode) # null
  /\ Return(<<>>, validationError(players, gameType, pairingMode))
  /\ UNCHANGED <<swap, storageVars, channel, args, r, fairness, rounds, iter>>

Valid == validationError(players, gameType, pairingMode) = null

\* a singles generator that builds its counters once and keeps them
EnterSinglesKeepCounters ==
  /\ pc = "call"
  /\ Valid
  /\ gameType = "singles"
  /\ fairness' = IF fairness = NoFairness THEN createFairnessState(players) ELSE fairness
  /\ rounds' = <<>>
  /\ r' = 0
  /\ pc' = "loop"
  /\ UNCHANGED <<swap, storageVars, channel, args, iter, result>>

\* generateSinglesRounds up to its loop
EnterSingles ==
  /\ pc = "call"
  /\ Valid
  /\ gameType = "singles"
  /\ fairness' = createFairnessState(players)
  /\ rounds' = <<>>
  /\ r' = 0
  /\ pc' = "loop"
  /\ UNCHANGED <<swap, storageVars, channel, args, iter, result>>

\* one iteration of the loop of generateSinglesRounds
SinglesRound ==
  /\ pc = "loop"
  /\ gameType = "singles"
  /\ r < numRounds
  /\ \E sel \in selectActivePlayers(players, numCourts * 2, fairness.sitOutCounts) :
     \E a \in assignSinglesCourts(sel.active, numCourts, fairness.opponentCounts) :
     \E orderedPairs \in assignCourtNumbers(a.courts, fairness.courtCounts,
                                             [pair \in Range(a.courts) |-> SinglesPlayers(pair)]) :
       /\ fairness' = SinglesCounts(orderedPairs, 1, [fairness EXCEPT !.sitOutCounts = sel.sitOutCounts])
       /\ rounds' = Append(rounds, Round(r, SinglesCourts(r, orderedPairs), sel.sitOuts))
       /\ iter' = [active |-> sel.active, sitOuts |-> sel.sitOuts, teams |-> <<>>,
                   greedy |-> a.greedy, assigned |-> a.courts, ordered |-> orderedPairs]
  /\ r' = r + 1
  /\ UNCHANGED <<swap, storageVars, channel, args, pc, result>>

\* generateDoublesRandomRounds up to its loop
EnterDoublesRandom ==
  /\ pc = "call"
  /\ Valid
  /\ gameType # "singles" /\ pairingMode # "mixed"
  /\ fairness' = createFairnessState(players)
  /\ rounds' = <<>>
  /\ r' = 0
  /\ pc' = "loop"
  /\ UNCHANGED <<swap, storageVars, channel, args, iter, result>>

\* an iteration that writes the counters for the courts of the greedy
\* stages, the ones the swap improvement started from
DoublesRandomRoundCountsGreedy ==
  /\ pc = "loop"
  /\ gameType # "singles" /\ pairingMode # "mixed"
  /\ r < numRounds
  /\ \E sel \in selectActivePlayers(players, numCourts * 4, fairness.sitOutCounts) :
     \E a \in assignDoublesCourts(sel.active, numCourts, fairness.partnerCounts,
                                  fairness.opponentCounts) :
     \E ordered \in assignCourtNumbers(a.courts, fairness.courtCounts,
                                        [g \in Range(a.courts) |-> DoublesPlayers(g)]) :
       /\ fairness' = DoublesCounts(a.greedy, 1, [fairness EXCEPT !.sitOutCounts = sel.sitOutCounts])
       /\ rounds' = Append(rounds, Round(r, DoublesCourts(r, ordered), sel.sitOuts))
       /\ iter' = [active |-> sel.active, sitOuts |-> sel.sitOuts, teams |-> a.teams,
                   greedy |-> a.greedy, assigned |-> a.courts, ordered |-> ordered]
  /\ r' = r + 1
  /\ UNCHANGED <<swap, storageVars, channel, args, pc, result>>

\* one iteration of the loop of generateDoublesRandomRounds
DoublesRandomRound ==
  /\ pc = "loop"
  /\ gameType # "singles" /\ pairingMode # "mixed"
  /\ r < numRounds
  /\ \E sel \in selectActivePlayers(players, numCourts * 4, fairness.sitOutCounts) :
     \E a \in assignDoublesCourts(sel.active, numCourts, fairness.partnerCounts,
                                  fairness.opponentCounts) :
     \E ordered \in assignCourtNumbers(a.courts, fairness.courtCounts,
                                        [g \in Range(a.courts) |-> DoublesPlayers(g)]) :
       /\ fairness' = DoublesCounts(ordered, 1, [fairness EXCEPT !.sitOutCounts = sel.sitOutCounts])
       /\ rounds' = Append(rounds, Round(r, DoublesCourts(r, ordered), sel.sitOuts))
       /\ iter' = [active |-> sel.active, sitOuts |-> sel.sitOuts, teams |-> a.teams,
                   greedy |-> a.greedy, assigned |-> a.courts, ordered |-> ordered]
  /\ r' = r + 1
  /\ UNCHANGED <<swap, storageVars, channel, args, pc, result>>

maxCourts ==
  Min2(numCourts, Min2(Len(males(players)) \div 2, Len(females(players)) \div 2))

\* generateMixedDoublesRounds returns [] at once when no court can be filled
MixedNoCourts ==
  /\ pc = "call"
  /\ Valid
  /\ gameType # "singles" /\ pairingMode = "mixed"
  /\ maxCourts = 0
  /\ Return(<<>>, null)
  /\ UNCHANGED <<swap, storageVars, channel, args, r, fairness, rounds, iter>>

\* generateMixedDoublesRounds up to its loop
EnterMixed ==
  /\ pc = "call"
  /\ Valid
  /\ gameType # "singles" /\ pairingMode = "mixed"
  /\ maxCourts # 0
  /\ fairness' = createFairnessState(players)
  /\ rounds' = <<>>
  /\ r' = 0
  /\ pc' = "loop"
  /\ UNCHANGED <<swap, storageVars, channel, args, iter, result>>

\* an iteration that selects the active players from the whole pool at once
MixedRoundOnePool ==
  /\ pc = "loop"
  /\ gameType # "singles" /\ pairingMode = "mixed"
  /\ r < numRounds
  /\ \E sel \in selectActivePlayers(players, maxCourts * 4, fairness.sitOutCounts) :
     \E a \in assignMixedDoublesCourts(males(sel.active), females(sel.active), maxCourts,
                                       fairness.partnerCounts, fairness.opponentCounts) :
     \E ordered \in assignCourtNumbers(a.courts, fairness.courtCounts,
                                        [g \in Range(a.courts) |-> DoublesPlayers(g)]) :
       /\ fairness' = DoublesCounts(ordered, 1, [fairness EXCEPT !.sitOutCounts = sel.sitOutCounts])
       /\ rounds' = Append(rounds, Round(r, DoublesCourts(r, ordered), sel.sitOuts))
       /\ iter' = [active |-> sel.active, sitOuts |-> sel.sitOuts, teams |-> a.teams,
                   greedy |-> a.greedy, assigned |-> a.courts, ordered |-> ordered]
  /\ r' = r + 1
  /\ UNCHANGED <<swap, storageVars, channel, args, pc, result>>

\* one iteration of the loop of generateMixedDoublesRounds
MixedRound ==
  /\ pc = "loop"
  /\ gameType # "singles" /\ pairingMode = "mixed"
  /\ r < numRounds
  /\ \E selM \in selectActivePlayers(males(players), maxCourts * 2, fairness.sitOutCounts) :
     \E selF \in selectActivePlayers(females(players), maxCourts * 2, selM.sitOutCounts) :
     \E a \in assignMixedDoublesCourts(selM.active, selF.active, maxCourts,
                                       fairness.partnerCounts, fairness.opponentCounts) :
     \E ordered \in assignCourtNumbers(a.courts, fairness.courtCounts,
                                        [g \in Range(a.courts) |-> DoublesPlayers(g)]) :
       /\ fairness' = DoublesCounts(ordered, 1, [fairness EXCEPT !.sitOutCounts = selF.sitOutCounts])
       /\ rounds' = Append(rounds, Round(r, DoublesCourts(r, ordered), selM.sitOuts \o selF.sitOuts))
       /\ iter' = [active |-> selM.active \o selF.active,
                   sitOuts |-> selM.sitOuts \o selF.sitOuts, teams |-> a.teams,
                   greedy |-> a.greedy, assigned |-> a.courts, ordered |-> ordered]
  /\ r' = r + 1
  /\ UNCHANGED <<swap, storageVars, channel, args, pc, result>>

\* the loop is over: shufflePlayers returns the rounds with no error
ReturnRounds ==
  /\ pc = "loop"
  /\ ~(r < numRounds)
  /\ Return(rounds, null)
  /\ UNCHANGED <<swap, storageVars, channel, args, r, fairness, rounds, iter>>

Next ==
  \/ Reject
  \/ EnterSingles
  \/ SinglesRound
  \/ EnterDoublesRandom
  \/ DoublesRandomRound
  \/ MixedNoCourts
  \/ EnterMixed
  \/ MixedRound
  \/ ReturnRounds

Spec == Init /\ [][Next]_vars

\* ---------------------------------------------------- the second round on
\* Sessions whose swap improvement has work to do need two full courts and a
\* first round behind them.  SpecSecond follows such sessions from the end of
\* their first round: the one in which Math.random left every shuffle and
\* every tie in list order, so that the players were paired as listed.
FirstSel(ps, needed) ==
  IF Len(ps) =< needed THEN [active |-> ps, sitOuts |-> <<>>]
  ELSE [active |-> SubSeq(ps, 1, needed), sitOuts |-> SubSeq(ps, needed + 1, Len(ps))]

FirstPairs(active, quota) == Eager([k \in 1..quota |-> <<active[2 * k - 1], active[2 * k]>>])

FirstMixedTeams(activeMales, activeFemales, quota) ==
  Eager([k \in 1..quota |-> <<activeMales[k], activeFemales[k]>>])

FirstCourts(teams) ==
  Eager([k \in 1..(Len(teams) \div 2) |-> [team1 |-> teams[2 * k - 1], team2 |-> teams[2 * k]]])

SecondPool(mode) ==
  IF mode = null THEN Pool(MaxCourts + 1, MaxCourts) ELSE Pool(2 * MaxCourts, 2 * MaxCourts)

AfterFirstSingles(ps, nc) ==
  LET sel == FirstSel(ps, nc * 2)
      pairs == FirstPairs(sel.active, Min2(nc, Len(sel.active) \div 2))
  IN [fairness |-> SinglesCounts(pairs, 1,
                     [createFairnessState(ps) EXCEPT !.sitOutCounts = BumpSitOuts(@, sel.sitOuts)]),
      rounds |-> <<Round(0, SinglesCourts(0, pairs), sel.sitOuts)>>,
      iter |-> [active |-> sel.active, sitOuts |-> sel.sitOuts, teams |-> <<>>,
                greedy |-> pairs, assigned |-> pairs, ordered |-> pairs]]

AfterFirstDoubles(ps, nc) ==
  LET sel == FirstSel(ps, nc * 4)
      teams == FirstPairs(sel.active, 2 * Min2(nc, Len(sel.active) \div 4))
      courts == FirstCourts(teams)
  IN [fairness |-> DoublesCounts(courts, 1,
                     [createFairnessState(ps) EXCEPT !.sitOutCounts = BumpSitOuts(@, sel.sitOuts)]),
      rounds |-> <<Round(0, DoublesCourts(0, courts), sel.sitOuts)>>,
      iter |-> [active |-> sel.active, sitOuts |-> sel.sitOuts, teams |-> teams,
                greedy |-> courts, assigned |-> courts, ordered |-> courts]]

AfterFirstMixed(ps, nc) ==
  LET mc == Min2(nc, Min2(Len(males(ps)) \div 2, Len(females(ps)) \div 2))
      selM == FirstSel(males(ps), mc * 2)
      selF == FirstSel(females(ps), mc * 2)
      teams == FirstMixedTeams(selM.active, selF.active, 2 * mc)
      courts == FirstCourts(teams)
      sitOuts == selM.sitOuts \o selF.sitOuts
  IN [fairness |-> DoublesCounts(courts, 1,
                     [createFairnessState(ps) EXCEPT !.sitOutCounts = BumpSitOuts(@, sitOuts)]),
      rounds |-> <<Round(0, DoublesCourts(0, courts), sitOuts)>>,
      iter |-> [active |-> selM.active \o selF.active, sitOuts |-> sitOuts, teams |-> teams,
                greedy |-> courts, assigned |-> courts, ordered |-> courts]]

InitSecond ==
  /\ \E gp \in {<<"singles", null>>, <<"doubles", "random">>, <<"doubles", "mixed">>} :
        /\ gameType = gp[1]
        /\ pairingMode = gp[2]
  /\ players = SecondPool(pairingMode)
  /\ numCourts = MaxCourts
  /\ numRounds = ShortRounds
  /\ pc = "loop"
  /\ r = 1
  /\ LET first == IF gameType = "singles" THEN AfterFirstSingles(players, numCourts)
                  ELSE IF pairingMode = "mixed" THEN AfterFirstMixed(players, numCourts)
                  ELSE AfterFirstDoubles(players, numCourts)
     IN /\ fairness = first.fairness
        /\ rounds = first.rounds
        /\ iter = first.iter
  /\ result = null
  /\ ShuffleOnly

NextSecond ==
  \/ SinglesRound
  \/ DoublesRandomRound
  \/ MixedRound
  \/ ReturnRounds

SpecSecond == InitSecond /\ [][NextSecond]_vars

\* ------------------------------------------------ four rounds, two courts
\* Sessions of RotationRounds rounds in which every player plays every
\* round: four singles players or eight doubles players on two courts.
\* SpecRotation follows them from the end of a first round that paired the
\* players as listed.  Every later singles round is any round the code can
\* produce.  The second doubles round is any round the code can produce; in
\* the doubles rounds after it Math.random left every tie of the two greedy
\* stages in list order (the sort being stable, the cheapest free candidate
\* that was pushed first is accepted), and the coin flips of
\* assignCourtNumbers stay open.
RECURSIVE ListOrderPairs(_, _, _, _, _)
ListOrderPairs(active, countMap, used, acc, quota) ==
  LET free == {ij \in (1..Len(active)) \X (1..Len(active)) :
                 /\ ij[1] < ij[2]
                 /\ active[ij[1]].id \notin used
                 /\ active[ij[2]].id \notin used}
      cost(ij) == getCount(countMap, active[ij[1]].id, active[ij[2]].id)
      cheapest == {ij \in free : \A other \in free : cost(ij) =< cost(other)}
      first == CHOOSE ij \in cheapest :
                 \A other \in cheapest :
                   ij[1] < other[1] \/ (ij[1] = other[1] /\ ij[2] =< other[2])
  IN IF Len(acc) >= quota \/ free = {} THEN acc
     ELSE ListOrderPairs(active, countMap,
                         used \cup {active[first[1]].id, active[first[2]].id},
                         Append(acc, <<active[first[1]], active[first[2]]>>), quota)

RECURSIVE ListOrderTeamPairs(_, _, _, _, _)
ListOrderTeamPairs(teams, opponentCounts, usedTeams, acc, quota) ==
  LET free == {ij \in (1..Len(teams)) \X (1..Len(teams)) :
                 ij[1] < ij[2] /\ ij[1] \notin usedTeams /\ ij[2] \notin usedTeams}
      cost(ij) == courtOpponentCost(teams[ij[1]], teams[ij[2]], opponentCounts)
      cheapest == {ij \in free : \A other \in free : cost(ij) =< cost(other)}
      first == CHOOSE ij \in cheapest :
                 \A other \in cheapest :
                   ij[1] < other[1] \/ (ij[1] = other[1] /\ ij[2] =< other[2])
  IN IF Len(acc) >= quota \/ free = {} THEN acc
     ELSE ListOrderTeamPairs(teams, opponentCounts, usedTeams \cup {first[1], first[2]},
                             Append(acc, [team1 |-> teams[first[1]], team2 |-> teams[first[2]]]),
                             quota)

assignDoublesCourtsListOrder(activePlayers, nc, partnerCounts, opponentCounts) ==
  LET actualCourts == Min2(nc, Len(activePlayers) \div 4)
      teams == ListOrderPairs(activePlayers, partnerCounts, {}, <<>>, actualCourts * 2)
      g == ListOrderTeamPairs(teams, opponentCounts, {}, <<>>, actualCourts)
  IN IF actualCourts = 0 THEN [teams |-> <<>>, greedy |-> <<>>, courts |-> <<>>]
     ELSE [teams |-> teams, greedy |-> g,
           courts |-> improveDoublesSwap(g, partnerCounts, opponentCounts)]

\* one iteration of the loop of generateDoublesRandomRounds, ties in list order
DoublesRandomRoundListOrder ==
  /\ pc = "loop"
  /\ gameType # "singles" /\ pairingMode # "mixed"
  /\ r < numRounds
  /\ \E sel \in selectActivePlayers(players, numCourts * 4, fairness.sitOutCounts) :
     \E a \in {assignDoublesCourtsListOrder(sel.active, numCourts, fairness.partnerCounts,
                                            fairness.opponentCounts)} :
        \E ordered \in assignCourtNumbers(a.courts, fairness.courtCounts,
                                           [g \in Range(a.courts) |-> DoublesPlayers(g)]) :
          /\ fairness' = DoublesCounts(ordered, 1, [fairness EXCEPT !.sitOutCounts = sel.sitOutCounts])
          /\ rounds' = Append(rounds, Round(r, DoublesCourts(r, ordered), sel.sitOuts))
          /\ iter' = [active |-> sel.active, sitOuts |-> sel.sitOuts, teams |-> a.teams,
                      greedy |-> a.greedy, assigned |-> a.courts, ordered |-> ordered]
  /\ r' = r + 1
  /\ UNCHANGED <<swap, storageVars, channel, args, pc, result>>

\* the pool that fills every court of the session with no one left over
FullPool(mode) ==
  IF mode = null THEN Pool(MaxCourts, MaxCourts) ELSE Pool(2 * MaxCourts, 2 * MaxCourts)

InitRotation ==
  /\ \E gp \in {<<"singles", null>>, <<"doubles", "random">>} :
        /\ gameType = gp[1]
        /\ pairingMode = gp[2]
  /\ players = FullPool(pairingMode)
  /\ numCourts = MaxCourts
  /\ numRounds = RotationRounds
  /\ pc = "loop"
  /\ r = 1
  /\ LET first == IF gameType = "singles" THEN AfterFirstSingles(players, numCourts)
                  ELSE AfterFirstDoubles(players, numCourts)
     IN /\ fairness = first.fairness
        /\ rounds = first.rounds
        /\ iter = first.iter
  /\ result = null
  /\ ShuffleOnly

\* the second round of the session
RotationSecondRound == Len(rounds) = 1 /\ DoublesRandomRound

\* the rounds after the second
RotationLaterRound == Len(rounds) > 1 /\ DoublesRandomRoundListOrder

NextRotation ==
  \/ SinglesRound
  \/ RotationSecondRound
  \/ RotationLaterRound
  \/ ReturnRounds

SpecRotation == InitRotation /\ [][NextRotation]_vars

\* ------------------------------------------------- sessions on three courts
\* Sessions that fill WideCourts courts with no one left over, followed from
\* the end of a first round that paired the players as listed.  With three
\* courts the greedy stages can leave a last court whose players have met
\* before, which the swap improvement then has to repair, and a swap
\* between two courts has a third court to leave alone.  Every singles
\* round is any round the code can produce; in the doubles rounds
\* Math.random left every tie of the two greedy stages in list order, and
\* the coin flips of assignCourtNumbers stay open.
InitWide ==
  /\ \E gp \in {<<"singles", null>>, <<"doubles", "random">>} :
        /\ gameType = gp[1]
        /\ pairingMode = gp[2]
  /\ players = IF gameType = "singles" THEN Pool(WideCourts, WideCourts)
               ELSE Pool(2 * WideCourts, 2 * WideCourts)
  /\ numCourts = WideCourts
  /\ numRounds \in 2..(IF gameType = "singles" THEN WideRounds ELSE LongRounds)
  /\ pc = "loop"
  /\ r = 1
  /\ LET first == IF gameType = "singles" THEN AfterFirstSingles(players, numCourts)
                  ELSE AfterFirstDoubles(players, numCourts)
     IN /\ fairness = first.fairness
        /\ rounds = first.rounds
        /\ iter = first.iter
  /\ result = null
  /\ ShuffleOnly

NextWide ==
  \/ SinglesRound
  \/ DoublesRandomRoundListOrder
  \/ ReturnRounds

SpecWide == InitWide /\ [][NextWide]_vars

\* ------------------------------------------------- one call after another
\* shufflePlayers called again and again on small sessions.  `result` keeps
\* what the last finished call returned; the locals of a finished call
\* (fairness, rounds, r, iter) hold whatever that call left in them until
\* the next call overwrites them.
AgainArgs ==
  {<<Pool(m, f), gp[1], gp[2], nr, nc>> :
     m \in 0..MaxFemales, f \in 0..MaxFemales,
     gp \in {<<"singles", null>>, <<"doubles", "random">>, <<"doubles", "mixed">>},
     nr \in 0..ShortRounds, nc \in 0..MaxCourts}

InitAgain ==
  /\ \E a \in AgainArgs :
        /\ players = a[1]
        /\ gameType = a[2]
        /\ pairingMode = a[3]
        /\ numRounds = a[4]
        /\ numCourts = a[5]
  /\ pc = "call"
  /\ r = 0
  /\ fairness = NoFairness
  /\ rounds = <<>>
  /\ iter = NoIter
  /\ result = null
  /\ ShuffleOnly

\* the caller calls shufflePlayers once more
CallAgain ==
  /\ pc = "returned"
  /\ \E a \in AgainArgs :
        /\ players' = a[1]
        /\ gameType' = a[2]
        /\ pairingMode' = a[3]
        /\ numRounds' = a[4]
        /\ numCourts' = a[5]
  /\ pc' = "call"
  /\ UNCHANGED <<swap, storageVars, channel, r, fairness, rounds, iter, result>>

NextAgain ==
  \/ CallAgain
  \/ Next

SpecAgain == InitAgain /\ [][NextAgain]_vars

\* ------------------------------------------------ the swap loops, sweep by
\* sweep.  improveSinglesSwap, improveDoublesSwap and improveMixedDoublesSwap
\* share the loop `while (improved && iterations < 50)`.  Whether a sweep
\* over the pairs of courts adopts a swap is decided by the courts and the
\* counters; here a sweep may end either way, which covers every set of
\* courts and every state of the counters.
SwapLoops == {"improveSinglesSwap", "improveDoublesSwap", "improveMixedDoublesSwap"}

\* the shuffle is not running
ShuffleIdle ==
  /\ players = <<>>
  /\ gameType = null
  /\ pairingMode = null
  /\ numRounds = 0
  /\ numCourts = 0
  /\ pc = "idle"
  /\ r = 0
  /\ fairness = NoFairness
  /\ rounds = <<>>
  /\ iter = NoIter
  /\ result = null

\* let improved = true; let iterations = 0
InitSwap ==
  /\ ShuffleIdle
  /\ \E loop \in SwapLoops :
       swap = [loop |-> loop, improved |-> TRUE, iterations |-> 0, running |-> TRUE]
  /\ now = 0
  /\ stored = NoItem
  /\ reply = NoReply
  /\ upd = NoUpdate
  /\ channel = NoChannel

\* a loop that goes on for as long as sweeps improve
SwapSweepUncapped ==
  /\ swap.running
  /\ swap.improved
  /\ \E adopted \in BOOLEAN :
       swap' = [swap EXCEPT !.improved = adopted, !.iterations = @ + 1]
  /\ UNCHANGED <<shuffleVars, storageVars, channel>>

\* one pass of the body of the while loop: a full sweep over the pairs of courts
SwapSweep ==
  /\ swap.running
  /\ swap.improved /\ swap.iterations < MaxSweeps
  /\ \E adopted \in BOOLEAN :
       swap' = [swap EXCEPT !.improved = adopted, !.iterations = @ + 1]
  /\ UNCHANGED <<shuffleVars, storageVars, channel>>

\* the while condition is false: the function returns
SwapReturn ==
  /\ swap.running
  /\ ~(swap.improved /\ swap.iterations < MaxSweeps)
  /\ swap' = [swap EXCEPT !.running = FALSE]
  /\ UNCHANGED <<shuffleVars, storageVars, channel>>

NextSwap ==
  \/ SwapSweep
  \/ SwapReturn

SpecSwap == InitSwap /\ [][NextSwap]_vars

\* ---------------------------------------------------- session persistence
\* storage.js: the session kept in localStorage under STORAGE_KEY.  A
\* session is its sessionCode and isShuffled (the other fields are carried
\* along in the same way); JSON.stringify and JSON.parse give such a record
\* back as it was.  localStorage accepts every write.  Time moves in steps
\* of twelve hours.
EXPIRY_HOURS == 24

HourMs == 60 * 60 * 1000

TickMs == 12 * HourMs

SessionDatas == [sessionCode : 1..MaxCodes, isShuffled : BOOLEAN]

\* { ...sessionData, savedAt: now, expiresAt: now + EXPIRY_HOURS * 60 * 60 * 1000 }
Item(data, t) ==
  [present |-> TRUE, sessionCode |-> data.sessionCode, isShuffled |-> data.isShuffled,
   savedAt |-> t, expiresAt |-> t + EXPIRY_HOURS * 60 * 60 * 1000]

\* an expiry test that already fails at the deadline
ExpiredAtDeadline(item, t) == item.expiresAt # 0 /\ t >= item.expiresAt

\* sessionData.expiresAt && Date.now() > sessionData.expiresAt
Expired(item, t) == item.expiresAt # 0 /\ t > item.expiresAt

\* loadSession at time t with `item` in storage: what it returns (NoItem for
\* null), what it leaves in storage, and what it logs
loadSession(item, t) ==
  IF ~item.present
  THEN [session |-> NoItem, stored |-> item, log |-> <<"No session found">>]
  ELSE IF Expired(item, t)
       THEN [session |-> NoItem, stored |-> NoItem,
             log |-> <<"Session expired, clearing", "Session cleared">>]
       ELSE [session |-> item, stored |-> item, log |-> <<"Session loaded">>]

InitStorage ==
  /\ ShuffleIdle
  /\ swap = NoSwap
  /\ now = 0
  /\ stored = NoItem
  /\ reply = NoReply
  /\ upd = NoUpdate
  /\ channel = NoChannel

\* time passes
Tick ==
  /\ now + TickMs =< MaxHalfDays * TickMs
  /\ now' = now + TickMs
  /\ UNCHANGED <<shuffleVars, swap, channel, stored, reply, upd>>

SaveSession ==
  /\ \E data \in SessionDatas : stored' = Item(data, now)
  /\ reply' = [op |-> "saveSession", ok |-> TRUE, session |-> NoItem, log |-> <<"Session saved">>]
  /\ UNCHANGED <<shuffleVars, swap, channel, now, upd>>

LoadSession ==
  /\ LET out == loadSession(stored, now)
     IN /\ stored' = out.stored
        /\ reply' = [op |-> "loadSession", ok |-> out.session.present,
                     session |-> out.session, log |-> out.log]
  /\ UNCHANGED <<shuffleVars, swap, channel, now, upd>>

ClearSession ==
  /\ stored' = NoItem
  /\ reply' = [op |-> "clearSession", ok |-> TRUE, session |-> NoItem, log |-> <<"Session cleared">>]
  /\ UNCHANGED <<shuffleVars, swap, channel, now, upd>>

\* updateSession up to the end of `await loadSession()`
UpdateSessionLoad ==
  /\ ~upd.awaiting
  /\ LET out == loadSession(stored, now)
     IN /\ stored' = out.stored
        /\ reply' = [op |-> "loadSession", ok |-> out.session.present,
                     session |-> out.session, log |-> out.log]
        /\ \E b \in BOOLEAN :
             upd' = [awaiting |-> TRUE, current |-> out.session, isShuffled |-> b]
  /\ UNCHANGED <<shuffleVars, swap, channel, now>>

\* updateSession after the await: nothing to update, or the write
UpdateSessionWrite ==
  /\ upd.awaiting
  /\ IF ~upd.current.present
     THEN /\ reply' = [op |-> "updateSession", ok |-> FALSE, session |-> NoItem,
                       log |-> <<"No session to update">>]
          /\ stored' = stored
     ELSE /\ stored' = [upd.current EXCEPT !.isShuffled = upd.isShuffled,
                                           !.savedAt = now,
                                           !.expiresAt = now + EXPIRY_HOURS * 60 * 60 * 1000]
          /\ reply' = [op |-> "updateSession", ok |-> TRUE, session |-> NoItem,
                       log |-> <<"Session updated, expiry reset">>]
  /\ upd' = NoUpdate
  /\ UNCHANGED <<shuffleVars, swap, channel, now>>

NextStorage ==
  \/ Tick
  \/ SaveSession
  \/ LoadSession
  \/ ClearSession
  \/ UpdateSessionLoad
  \/ UpdateSessionWrite

SpecStorage == InitStorage /\ [][NextStorage]_vars

\* ------------------------------------------------ realtime court updates
\* OrganizerScreen keeps the rounds of the last shuffle in its state and
\* listens to UPDATE events of the table `courts`.  Another client that
\* enters a score calls updateCourtInCloud(sessionCode, roundNumber,
\* courtNumber, updates), which updates the row of that court of that round;
\* the event carries the row as payload.new.  Scores, names and times are
\* opaque values here.  SpecRealtime follows a singles session of two rounds
\* on two courts from the end of its first round, and then up to MaxEvents
\* events.
Statuses == {"playing", "completed"}

ScoreValues == {"0", "11"}

UpdaterNames == {"scorer"}

IsoTimes == {"2026-01-01T00:00:00.000Z"}

\* new Date(iso).getTime()
getTime(iso) == IF iso = "2026-01-01T00:00:00.000Z" THEN "1767225600000" ELSE "NaN"

\* the rows an UPDATE of one court can leave in the table
Payloads(roundNumbers, courtNumbers) ==
  [round_number : roundNumbers, court_number : courtNumbers,
   status : Statuses \cup {null}, score_team1 : ScoreValues \cup {null},
   score_team2 : {"7", null}, score_updated_by : UpdaterNames \cup {null},
   score_updated_at : IsoTimes \cup {null}]

\* the callback of round.courts.map in the handler of the subscription
ApplyCourtUpdate(court, updated) ==
  IF court.courtNumber # updated.court_number THEN court
  ELSE [court EXCEPT
          !.status = IF updated.status # null THEN updated.status ELSE court.status,
          !.score = [team1 |-> IF updated.score_team1 # null THEN updated.score_team1
                               ELSE court.score.team1,
                     team2 |-> IF updated.score_team2 # null THEN updated.score_team2
                               ELSE court.score.team2,
                     lastUpdatedBy |-> IF updated.score_updated_by # null
                                       THEN updated.score_updated_by
                                       ELSE court.score.lastUpdatedBy,
                     lastUpdatedAt |-> IF updated.score_updated_at # null
                                       THEN getTime(updated.score_updated_at)
                                       ELSE court.score.lastUpdatedAt]]

\* prev.map((round) => ({ ...round, courts: round.courts.map(...) }))
ApplyToRounds(prev, updated) ==
  [k \in DOMAIN prev |->
     [prev[k] EXCEPT !.courts = [i \in DOMAIN prev[k].courts |->
                                  ApplyCourtUpdate(prev[k].courts[i], updated)]]]

InitRealtime ==
  /\ gameType = "singles"
  /\ pairingMode = null
  /\ players = Pool(MaxCourts, MaxCourts)
  /\ numCourts = MaxCourts
  /\ numRounds = ShortRounds
  /\ pc = "loop"
  /\ r = 1
  /\ LET first == AfterFirstSingles(players, numCourts)
     IN /\ fairness = first.fairness
        /\ rounds = first.rounds
        /\ iter = first.iter
  /\ result = null
  /\ ShuffleOnly

\* An UPDATE of the row of one court of one round arrives; the screen holds
\* the rounds shufflePlayers returned (setRounds(result.rounds)), as changed
\* by the events before.
ReceiveCourtUpdate ==
  /\ pc = "returned"
  /\ result.error = null
  /\ rounds # <<>>
  /\ channel.received < MaxEvents
  /\ \E updated \in Payloads({rounds[k].roundNumber : k \in DOMAIN rounds},
                              UNION {{rounds[k].courts[i].courtNumber : i \in DOMAIN rounds[k].courts} :
                                       k \in DOMAIN rounds}) :
       /\ channel' = [received |-> channel.received + 1, last |-> updated]
       /\ rounds' = ApplyToRounds(rounds, updated)
  /\ UNCHANGED <<swap, storageVars, args, pc, r, fairness, iter, result>>

NextRealtime ==
  \/ SinglesRound
  \/ ReturnRounds
  \/ ReceiveCourtUpdate

SpecRealtime == InitRealtime /\ [][NextRealtime]_vars

\* ================================================================ claims
PlayerIds == Ids(players)

\* the fairness state exists: a generate...Rounds loop has been entered
Tracking == pc # "call" /\ fairness # NoFairness

\* C1: after every round of a shuffle, in every mode, the largest and the
\* smallest sit-out count over all players of the pool differ by at most 1.
C1_SitOutSpread ==
  Tracking =>
    \A a, b \in PlayerIds :
      GetOr0(fairness.sitOutCounts, a) - GetOr0(fairness.sitOutCounts, b) =< 1

\* the players on the courts of a round
OnCourt(rd) == UNION {Range(rd.courts[k].players) : k \in DOMAIN rd.courts}

\* C2: in every round produced, every player of the pool who is on no court
\* of the round is listed in the round's sitOuts.
C2_LeftoverSitsOut ==
  \A k \in DOMAIN rounds :
    \A p \in Range(players) :
      p \notin OnCourt(rounds[k]) => p \in Range(rounds[k].sitOuts)

\* C3: in a singles shuffle no opponent pair has met twice while some pair of
\* the pool has not met at all.
C3_NoRepeatBeforeExhaustion ==
  (Tracking /\ gameType = "singles") =>
    ((\E a, b \in PlayerIds : a # b /\ getCount(fairness.opponentCounts, a, b) >= 2)
       => \A a, b \in PlayerIds : a # b => getCount(fairness.opponentCounts, a, b) >= 1)

\* C4: after every round the partner counts and the opponent counts are
\* symmetric: the count of (a, b) equals the count of (b, a).
C4_Symmetry ==
  \A a, b \in PlayerIds :
    /\ getCount(fairness.partnerCounts, a, b) = getCount(fairness.partnerCounts, b, a)
    /\ getCount(fairness.opponentCounts, a, b) = getCount(fairness.opponentCounts, b, a)

\* a pair has been partners and a pair has been opponents
C4_Witness ==
  /\ \E a, b \in PlayerIds : a # b /\ getCount(fairness.partnerCounts, a, b) >= 1
  /\ \E a, b \in PlayerIds : a # b /\ getCount(fairness.opponentCounts, a, b) >= 2

\* the courts of every round pushed so far
Courts == UNION {Range(rounds[k].courts) : k \in DOMAIN rounds}

\* C5: every court of a doubles mode has exactly 4 players with pairwise
\* distinct ids, team1 and team2 of 2 players each, and players = team1
\* followed by team2; every singles court has exactly 2 players with
\* distinct ids.
C5_CourtStructure ==
  \A court \in Courts :
    IF gameType = "doubles"
    THEN /\ Len(court.players) = 4
         /\ Cardinality(Ids(court.players)) = 4
         /\ Len(court.team1) = 2
         /\ Len(court.team2) = 2
         /\ court.players = court.team1 \o court.team2
    ELSE /\ Len(court.players) = 2
         /\ Cardinality(Ids(court.players)) = 2

\* a random-doubles round on two courts whose swap improvement changed the
\* courts of the greedy stages
C5_Witness ==
  /\ gameType = "doubles" /\ pairingMode = "random"
  /\ r >= 2
  /\ Len(rounds[r].courts) = 2
  /\ iter.greedy # iter.assigned

\* C6: with an empty player list shufflePlayers returns the no-players error
\* and zero rounds, whatever the other arguments are.
C6_EmptyRoster ==
  (pc = "returned" /\ Len(players) = 0) =>
    /\ result.error = NoPlayersError
    /\ result.rounds = <<>>

\* an empty list was rejected in mixed doubles, where the later checks would
\* have failed as well
C6_Witness ==
  /\ pc = "returned" /\ Len(players) = 0
  /\ gameType = "doubles" /\ pairingMode = "mixed"
  /\ numRounds >= 1 /\ numCourts >= 1

\* C7: with a non-empty pool of fewer than 2 players in singles, or fewer
\* than 4 in doubles, shufflePlayers returns the insufficient-players error
\* and zero rounds.
C7_InsufficientPlayers ==
  (/\ pc = "returned"
   /\ Len(players) >= 1
   /\ \/ gameType = "singles" /\ Len(players) < 2
      \/ gameType = "doubles" /\ Len(players) < 4) =>
    /\ result.error = TooFewError(gameType)
    /\ result.rounds = <<>>

\* three players were rejected for doubles
C7_Witness ==
  /\ pc = "returned" /\ gameType = "doubles" /\ Len(players) = 3
  /\ result.error = "Need at least 4 players for doubles"

NumMales == Cardinality({i \in DOMAIN players : players[i].gender = "male"})
NumFemales == Cardinality({i \in DOMAIN players : players[i].gender = "female"})

ArgsValid ==
  /\ Len(players) >= 1
  /\ gameType = "singles" => Len(players) >= 2
  /\ gameType = "doubles" => Len(players) >= 4
  /\ (gameType = "doubles" /\ pairingMode = "mixed") => (NumMales >= 2 /\ NumFemales >= 2)

\* C9: a shuffle is all or nothing: when the validations pass (and numRounds
\* and numCourts are at least 1) the result has no error and exactly
\* numRounds rounds numbered 1, 2, ..., numRounds in order; when a validation
\* fails the result has an error and zero rounds.
C9_AllOrNothing ==
  pc = "returned" =>
    /\ (ArgsValid /\ numRounds >= 1 /\ numCourts >= 1) =>
         /\ result.error = null
         /\ Len(result.rounds) = numRounds
         /\ \A k \in 1..numRounds : result.rounds[k].roundNumber = k
    /\ ~ArgsValid =>
         /\ result.error # null
         /\ result.rounds = <<>>

\* a mixed-doubles shuffle returned several rounds
C9_Witness ==
  /\ pc = "returned"
  /\ gameType = "doubles" /\ pairingMode = "mixed"
  /\ numRounds >= 2 /\ numCourts >= 1
  /\ result.error = null
  /\ Len(result.rounds) = numRounds

\* a team of one male and one female
MixedTeam(team) ==
  /\ Len(team) = 2
  /\ \E i, j \in 1..2 : i # j /\ team[i].gender = "male" /\ team[j].gender = "female"

MixedCourts(courts) ==
  \A k \in DOMAIN courts : MixedTeam(courts[k].team1) /\ MixedTeam(courts[k].team2)

\* C10: in mixed doubles every team is one male and one female: the teams of
\* the greedy partner formation, the courts of the team-vs-team pairing, the
\* courts the swap improvement leaves, and the courts of every round.
C10_MixedTeams ==
  (gameType = "doubles" /\ pairingMode = "mixed") =>
    /\ \A k \in DOMAIN iter.teams : MixedTeam(iter.teams[k])
    /\ MixedCourts(iter.greedy)
    /\ MixedCourts(iter.assigned)
    /\ \A court \in Courts : MixedTeam(court.team1) /\ MixedTeam(court.team2)

\* a mixed round on two courts in which the swap improvement adopted a swap
C10_Witness ==
  /\ gameType = "doubles" /\ pairingMode = "mixed"
  /\ r >= 2
  /\ Len(iter.teams) = 4
  /\ Len(rounds[r].courts) = 2
  /\ iter.greedy # iter.assigned

IndexOrders(n) ==
  {f \in [1..n -> 1..n] : \A i, j \in 1..n : i # j => f[i] # f[j]}

\* the players of a court group
GroupPlayers(g) == IF gameType = "singles" THEN g ELSE g.team1 \o g.team2

\* the occupancy cost of putting groups[k] on court number order[k]
OccupancyCost(groups, order, courtCounts) ==
  SumSeq([k \in DOMAIN groups |->
    SumSeq([x \in 1..Len(GroupPlayers(groups[k])) |->
      getCount(courtCounts, GroupPlayers(groups[k])[x].id, order[k])])])

\* C12: in every round (of at most 8 court groups) the groups come back from
\* assignCourtNumbers as a permutation of the groups it was given, and their
\* total occupancy cost, against the court counts as they were before the
\* round, is minimal among all assignments of the groups to 1..n.
C12_MinimalRotation ==
  [][rounds' # rounds =>
       LET given == iter'.assigned
           back == iter'.ordered
           n == Len(given)
       IN /\ Len(back) = n
          /\ Range(back) = Range(given)
          /\ \A o \in IndexOrders(n) :
               OccupancyCost(back, [k \in 1..n |-> k], fairness.courtCounts)
                 =< OccupancyCost(given, o, fairness.courtCounts)]_vars

\* a second round whose two groups were put on the courts in the other order
C12_Witness ==
  /\ r = 2
  /\ Len(iter.assigned) = 2
  /\ iter.ordered # iter.assigned


C17_FreshFairness ==
  (pc = "loop" /\ r = 0) =>
    /\ rounds = <<>>
    /\ \A a \in PlayerIds :
         /\ GetOr0(fairness.sitOutCounts, a) = 0
         /\ \A b \in PlayerIds :
              /\ getCount(fairness.partnerCounts, a, b) = 0
              /\ getCount(fairness.opponentCounts, a, b) = 0
         /\ \A c \in 1..numCourts : getCount(fairness.courtCounts, a, c) = 0

\* an invocation at the start of its loop after an earlier invocation had
\* players of the present pool sit out in its last round
C17_Witness ==
  /\ pc = "loop" /\ r = 0
  /\ iter.sitOuts # <<>>
  /\ Range(iter.sitOuts) \subseteq Range(players)

\* C15: each of the three swap-improvement loops makes at most 50 full
\* sweeps, and has returned once it has made 50 or a sweep adopted no swap.
C15_SwapLoopBound ==
  /\ swap.iterations =< 50
  /\ (swap.running /\ (swap.iterations = 50 \/ ~swap.improved)) => ~ENABLED SwapSweep

\* a loop that returned after 50 sweeps of which the last still adopted a swap
C15_Witness ==
  /\ swap.loop \in SwapLoops
  /\ ~swap.running
  /\ swap.iterations = 50
  /\ swap.improved

\* a and b face each other on a court of the round
Opponents(rd, a, b) ==
  \E court \in Range(rd.courts) :
    IF gameType = "singles" THEN Ids(court.players) = {a, b}
    ELSE \/ a \in Ids(court.team1) /\ b \in Ids(court.team2)
         \/ b \in Ids(court.team1) /\ a \in Ids(court.team2)

\* a and b are teammates on a court of the round
Partners(rd, a, b) ==
  /\ gameType # "singles"
  /\ \E court \in Range(rd.courts) : Ids(court.team1) = {a, b} \/ Ids(court.team2) = {a, b}

\* C16: after every round, for every two players, the opponent count of the
\* pair is the number of rounds so far in which they faced each other on a
\* court of the round as returned, and the partner count is the number of
\* rounds in which they were teammates there; so each round adds exactly 1
\* for the pairs of its final courts and nothing else, and singles leaves
\* every partner count at 0.
C16_CountersMatchRounds ==
  Tracking =>
    \A a, b \in PlayerIds :
      a # b =>
        /\ getCount(fairness.opponentCounts, a, b)
             = Cardinality({k \in DOMAIN rounds : Opponents(rounds[k], a, b)})
        /\ getCount(fairness.partnerCounts, a, b)
             = Cardinality({k \in DOMAIN rounds : Partners(rounds[k], a, b)})

\* a second round of random doubles whose swap improvement changed the
\* courts, and after which two players have been partners once and
\* opponents once
C16_Witness ==
  /\ gameType = "doubles" /\ pairingMode = "random"
  /\ Len(rounds) = 2
  /\ iter.greedy # iter.assigned
  /\ \E a, b \in PlayerIds :
       /\ getCount(fairness.partnerCounts, a, b) = 1
       /\ getCount(fairness.opponentCounts, a, b) = 1

\* the pools the selector is called on: the males and the females apart in
\* mixed doubles, all the players otherwise
SelectorPools ==
  IF pairingMode = "mixed" THEN {males(players), females(players)} ELSE {players}

\* C19: in every round, for every pool the selector was called on, a player
\* of the pool who sits out had, before the round, a sit-out count no
\* greater than that of any player of the pool who is active.
C19_RestedPlayFirst ==
  [][rounds' # rounds =>
       \A pool \in SelectorPools :
         \A p \in Range(pool) \cap Range(iter'.sitOuts) :
           \A q \in Range(pool) \cap Range(iter'.active) :
             GetOr0(fairness.sitOutCounts, q.id) >= GetOr0(fairness.sitOutCounts, p.id)]_vars

\* a round in which a player sat out while a player of the same pool who
\* had rested more before the round was active
C19_Witness ==
  /\ rounds # <<>>
  /\ \E pool \in SelectorPools :
       \E p \in Range(pool) \cap Range(iter.sitOuts) :
         \E q \in Range(pool) \cap Range(iter.active) :
           GetOr0(fairness.sitOutCounts, q.id) >= GetOr0(fairness.sitOutCounts, p.id)

\* the number of slots the selector is asked to fill from a pool
Needed ==
  IF gameType = "singles" THEN numCourts * 2
  ELSE IF pairingMode = "mixed"
       THEN 2 * Min2(numCourts, Min2(NumMales \div 2, NumFemales \div 2))
       ELSE numCourts * 4

\* C20: in every round and for every pool the selector was called on: a
\* pool larger than `needed` gives exactly `needed` active players and
\* everyone else of the pool sits out; a pool of at most `needed` players is
\* active as a whole and no one of it sits out.  And every sit-out count is
\* the number of rounds whose sitOuts list holds the player.
C20_SelectorFrame ==
  Tracking =>
    /\ rounds # <<>> =>
         \A pool \in SelectorPools :
           LET act == Range(pool) \cap Range(iter.active)
               out == Range(pool) \cap Range(iter.sitOuts)
           IN /\ act \cap out = {}
              /\ act \cup out = Range(pool)
              /\ IF Len(pool) > Needed THEN Cardinality(act) = Needed ELSE out = {}
    /\ \A p \in Range(players) :
         GetOr0(fairness.sitOutCounts, p.id)
           = Cardinality({k \in DOMAIN rounds : p \in Range(rounds[k].sitOuts)})

\* a session in which a player has sat out twice and the selector filled
\* exactly its slots from a larger pool
C20_Witness ==
  /\ Len(rounds) >= 2
  /\ \E pool \in SelectorPools :
       /\ Len(pool) > Needed
       /\ Cardinality(Range(pool) \cap Range(iter.active)) = Needed
       /\ \E p \in Range(pool) : GetOr0(fairness.sitOutCounts, p.id) = 2

\* 24 hours in milliseconds
DayMs == 24 * 60 * 60 * 1000

OfGender(S, g) == {p \in S : p.gender = g}

SinglesCost(courts, oc) ==
  SumSeq([k \in DOMAIN courts |-> getCount(oc, courts[k][1].id, courts[k][2].id)])

\* the inner-loop steps of one sweep of improveSinglesSwap, each with the
\* courts before and after it
RECURSIVE SinglesSweepSteps(_, _, _)
SinglesSweepSteps(st, todo, oc) ==
  IF todo = <<>> THEN <<>>
  ELSE LET nx == SinglesSwapStep(st, Head(todo)[1], Head(todo)[2], oc)
       IN <<[i |-> Head(todo)[1], j |-> Head(todo)[2], before |-> st.courts, after |-> nx.courts]>>
            \o SinglesSweepSteps(nx, Tail(todo), oc)

\* the steps of all the sweeps of a run of improveSinglesSwap
RECURSIVE SinglesLoopSteps(_, _, _, _)
SinglesLoopSteps(courts, improved, iterations, oc) ==
  IF improved /\ iterations < MaxSweeps
  THEN LET first == [courts |-> courts, improved |-> FALSE]
           st == SinglesSweep(first, CourtPairs(Len(courts)), oc)
       IN SinglesSweepSteps(first, CourtPairs(Len(courts)), oc)
            \o SinglesLoopSteps(st.courts, st.improved, iterations + 1, oc)
  ELSE <<>>

\* a step either leaves the courts alone or puts on courts i and j a
\* recombination of their four players that is strictly cheaper than the two
\* courts were and no dearer than the other recombination
SinglesStepAllowed(step, oc) ==
  LET a == step.before[step.i][1]
      b == step.before[step.i][2]
      c == step.before[step.j][1]
      d == step.before[step.j][2]
      cur == getCount(oc, a.id, b.id) + getCount(oc, c.id, d.id)
      s1 == getCount(oc, a.id, c.id) + getCount(oc, b.id, d.id)
      s2 == getCount(oc, a.id, d.id) + getCount(oc, b.id, c.id)
  IN \/ step.after = step.before
     \/ /\ \A k \in DOMAIN step.before : k \notin {step.i, step.j} => step.after[k] = step.before[k]
        /\ \/ /\ step.after[step.i] = <<a, c>> /\ step.after[step.j] = <<b, d>>
              /\ s1 < cur /\ s1 =< s2
           \/ /\ step.after[step.i] = <<a, d>> /\ step.after[step.j] = <<b, c>>
              /\ s2 < cur /\ s2 =< s1

\* no two courts have a recombination strictly cheaper than they are
SinglesLocallyOptimal(courts, oc) ==
  \A i, j \in DOMAIN courts :
    i < j =>
      LET a == courts[i][1]
          b == courts[i][2]
          c == courts[j][1]
          d == courts[j][2]
          cur == getCount(oc, a.id, b.id) + getCount(oc, c.id, d.id)
      IN /\ getCount(oc, a.id, c.id) + getCount(oc, b.id, d.id) >= cur
         /\ getCount(oc, a.id, d.id) + getCount(oc, b.id, c.id) >= cur

RECURSIVE DoublesSweepSteps(_, _, _, _)
DoublesSweepSteps(st, todo, pcs, ocs) ==
  IF todo = <<>> THEN <<>>
  ELSE LET nx == DoublesSwapStep(st, Head(todo)[1], Head(todo)[2], pcs, ocs)
       IN <<[i |-> Head(todo)[1], j |-> Head(todo)[2], before |-> st.courts, after |-> nx.courts]>>
            \o DoublesSweepSteps(nx, Tail(todo), pcs, ocs)

\* the steps of all the sweeps of a run of improveDoublesSwap
RECURSIVE DoublesLoopSteps(_, _, _, _, _)
DoublesLoopSteps(courts, improved, iterations, pcs, ocs) ==
  IF improved /\ iterations < MaxSweeps
  THEN LET first == [courts |-> courts, improved |-> FALSE]
           st == DoublesSweep(first, CourtPairs(Len(courts)), pcs, ocs)
       IN DoublesSweepSteps(first, CourtPairs(Len(courts)), pcs, ocs)
            \o DoublesLoopSteps(st.courts, st.improved, iterations + 1, pcs, ocs)
  ELSE <<>>

\* partner cost plus opponent cost of one doubles court
CourtCost(court, pcs, ocs) ==
  getCount(pcs, court.team1[1].id, court.team1[2].id)
  + getCount(pcs, court.team2[1].id, court.team2[2].id)
  + SumSeq([x \in 1..2 |-> SumSeq([y \in 1..2 |->
      getCount(ocs, court.team1[x].id, court.team2[y].id)])])

\* the partner cost of the two teams of a court is the least partner cost
\* over the three ways of splitting its four players 2+2
MinimalPartnerSplit(court, pcs) ==
  LET four == Range(court.team1) \cup Range(court.team2)
      here == getCount(pcs, court.team1[1].id, court.team1[2].id)
              + getCount(pcs, court.team2[1].id, court.team2[2].id)
  IN \A a, b \in four :
       a # b =>
         LET rest == four \ {a, b}
             c == CHOOSE x \in rest : TRUE
             d == CHOOSE x \in rest : x # c
         IN here =< getCount(pcs, a.id, b.id) + getCount(pcs, c.id, d.id)

\* the 4+4 groupings of eight items, as sets of two sets
Groupings(eight) ==
  {{g, eight \ g} : g \in {x \in SUBSET eight : Cardinality(x) = 4}}

\* a step either leaves the courts alone or puts on courts i and j a
\* re-split of their eight players that costs strictly less
DoublesStepAllowed(step, pcs, ocs) ==
  LET bi == step.before[step.i]
      bj == step.before[step.j]
      ai == step.after[step.i]
      aj == step.after[step.j]
      eight == Range(bi.team1) \cup Range(bi.team2) \cup Range(bj.team1) \cup Range(bj.team2)
  IN \/ step.after = step.before
     \/ /\ \A k \in DOMAIN step.before : k \notin {step.i, step.j} => step.after[k] = step.before[k]
        /\ Len(step.after) = Len(step.before)
        /\ Cardinality(eight) = 8
        /\ \A t \in {ai.team1, ai.team2, aj.team1, aj.team2} : Len(t) = 2 /\ t[1] # t[2]
        /\ {Range(ai.team1) \cup Range(ai.team2), Range(aj.team1) \cup Range(aj.team2)}
             \in Groupings(eight)
        /\ Cardinality(Groupings(eight)) = 35
        /\ MinimalPartnerSplit(ai, pcs)
        /\ MinimalPartnerSplit(aj, pcs)
        /\ CourtCost(ai, pcs, ocs) + CourtCost(aj, pcs, ocs)
             < CourtCost(bi, pcs, ocs) + CourtCost(bj, pcs, ocs)

UsedBefore(pairs, k) == UNION {Range(pairs[q]) : q \in 1..(k - 1)}

\* The pairs of `accepted` were accepted cheapest-first among the pairs
\* of one player of `left` with another of `right` (candidates): the k-th has
\* two unused players and costs no more than any candidate pair of unused
\* players, and the scan went on until `quota` pairs or no candidate
\* remained.
PairsCheapestFirst(accepted, left, right, countMap, quota) ==
  /\ Len(accepted) =< quota
  /\ \A k \in DOMAIN accepted :
       LET used == UsedBefore(accepted, k)
           x == accepted[k][1]
           y == accepted[k][2]
       IN /\ x # y /\ x \notin used /\ y \notin used
          /\ (x \in left /\ y \in right) \/ (y \in left /\ x \in right)
          /\ \A a \in left \ used, b \in right \ used :
               a # b => getCount(countMap, x.id, y.id) =< getCount(countMap, a.id, b.id)
  /\ Len(accepted) < quota =>
       LET used == UsedBefore(accepted, Len(accepted) + 1)
       IN \A a \in left \ used, b \in right \ used : a = b

\* the opponent cost of putting team s against team t
TeamsCost(s, t, ocs) ==
  SumSeq([x \in 1..Len(s) |-> SumSeq([y \in 1..Len(t) |-> getCount(ocs, s[x].id, t[y].id)])])

\* The courts were accepted cheapest-first among the pairs of teams: the
\* k-th court sets two unused teams against each other at an opponent cost
\* no higher than that of any two unused teams, until `quota` courts or no
\* two unused teams remained.
CourtsCheapestFirst(courts, teams, ocs, quota) ==
  /\ Len(courts) =< quota
  /\ \A k \in DOMAIN courts :
       LET used == UNION {{courts[q].team1, courts[q].team2} : q \in 1..(k - 1)}
           free == Range(teams) \ used
       IN /\ courts[k].team1 \in free /\ courts[k].team2 \in free
          /\ courts[k].team1 # courts[k].team2
          /\ \A s, t \in free :
               s # t => TeamsCost(courts[k].team1, courts[k].team2, ocs) =< TeamsCost(s, t, ocs)
  /\ Len(courts) < quota =>
       Cardinality(Range(teams) \ UNION {{courts[q].team1, courts[q].team2} : q \in DOMAIN courts}) < 2

PlayedOn(rd, p, c) ==
  \E court \in Range(rd.courts) : court.courtNumber = c /\ p \in Ids(court.players)

\* C25: a round adds exactly 1 to the occupancy counter of every player on
\* a court, at the number of that court, and changes no other occupancy
\* counter; so after every round the counter of player p at court number c
\* is the number of rounds so far in which p was on the court numbered c.
C25_OccupancyCounts ==
  [][rounds' # rounds =>
       LET rd == rounds'[Len(rounds')]
           numbers == (0..(numCourts + 1))
                        \cup UNION {DOMAIN fairness'.courtCounts[p] : p \in DOMAIN fairness'.courtCounts}
       IN /\ DOMAIN fairness'.courtCounts = DOMAIN fairness.courtCounts
          /\ \A p \in PlayerIds, c \in numbers :
               /\ getCount(fairness'.courtCounts, p, c)
                    = getCount(fairness.courtCounts, p, c) + (IF PlayedOn(rd, p, c) THEN 1 ELSE 0)
               /\ getCount(fairness'.courtCounts, p, c)
                    = Cardinality({k \in DOMAIN rounds' : PlayedOn(rounds'[k], p, c)})]_vars

\* after four rounds on two courts a player has been on court 1 twice and
\* on court 2 twice
C25_Witness ==
  /\ Tracking
  /\ Len(rounds) = 4
  /\ \E p \in PlayerIds :
       /\ getCount(fairness.courtCounts, p, 1) = 2
       /\ getCount(fairness.courtCounts, p, 2) = 2

\* C26: over the rounds of a shuffle no player is put on a court number for
\* a second time while the round uses a court number on which the player
\* has not played yet.
C26_RotateBeforeRepeat ==
  [][rounds' # rounds =>
       LET rd == rounds'[Len(rounds')]
           inUse == {court.courtNumber : court \in Range(rd.courts)}
       IN \A court \in Range(rd.courts) :
            \A p \in Ids(court.players) :
              getCount(fairness.courtCounts, p, court.courtNumber) >= 1 =>
                \A c \in inUse : getCount(fairness.courtCounts, p, c) >= 1]_vars

Places(rd) == SumSeq([k \in DOMAIN rd.courts |-> Len(rd.courts[k].players)])

\* C29: within every round no player id is on two courts or twice on one
\* court, no player id is both on a court and in the round's sitOuts, and
\* everyone on a court or in sitOuts is a player of the input pool.
C29_RoundPartition ==
  \A k \in DOMAIN rounds :
    LET rd == rounds[k]
    IN /\ Cardinality({p.id : p \in OnCourt(rd)}) = Places(rd)
       /\ {p.id : p \in OnCourt(rd)} \cap Ids(rd.sitOuts) = {}
       /\ OnCourt(rd) \subseteq Range(players)
       /\ Range(rd.sitOuts) \subseteq Range(players)

\* a second round on two courts in which a player sits out and whose swap
\* improvement changed the courts of the greedy stage
C29_Witness ==
  /\ Len(rounds) = 2
  /\ Len(rounds[2].courts) = 2
  /\ Len(rounds[2].sitOuts) >= 1
  /\ iter.greedy # iter.assigned

\* players per court: 2 in singles, 4 in doubles
PerCourt == IF gameType = "singles" THEN 2 ELSE 4

\* C30: in singles and random doubles with N players every round has
\* exactly K = min(numCourts, floor(N / k)) courts, k being the players per
\* court; the i-th court of the round has courtNumber i, so the numbers are
\* 1..K, each once, in list order; and every court is returned with status
\* 'pending' and a score whose four fields are null.
C30_CourtNumbering ==
  (gameType = "singles" \/ (gameType = "doubles" /\ pairingMode = "random")) =>
    /\ \A k \in DOMAIN rounds :
         /\ Len(rounds[k].courts) = Min2(numCourts, Len(players) \div PerCourt)
         /\ \A i \in DOMAIN rounds[k].courts :
              /\ rounds[k].courts[i].courtNumber = i
              /\ rounds[k].courts[i].status = "pending"
              /\ rounds[k].courts[i].score
                   = [team1 |-> "null", team2 |-> "null",
                      lastUpdatedBy |-> "null", lastUpdatedAt |-> "null"]
    /\ pc = "returned" => (result.error = "null" => result.rounds = rounds)

\* a singles shuffle of five players on two courts has returned two rounds,
\* the second with its two pairs numbered in the other order than the
\* matcher gave them
C30_Witness ==
  /\ pc = "returned"
  /\ gameType = "singles"
  /\ Len(players) = 5 /\ numCourts = 2
  /\ Len(result.rounds) = 2
  /\ Len(result.rounds[2].courts) = 2
  /\ iter.ordered # iter.assigned

====
